---- MODULE Spec2Model ----
(***************************************************************************)
(* Model of cplus_plugin.tasks.ScenarioAnalysisTask: the scenario analysis *)
(* pipeline (snapping, pathway combination, two normalization rounds,      *)
(* model aggregation, weighting, cleaning, highest position) as the        *)
(* sequential program run() with its call stack, the external canceller    *)
(* that sets processing_cancelled, and the raster services, each call of   *)
(* which is launched in one step and completes (or raises) in a later one. *)
(* The loop of cplus_plugin.lib.financials.create_npv_pwls is modelled by   *)
(* its own specification at the end of the model.                          *)
(***************************************************************************)
EXTENDS Integers, Sequences, FiniteSets, TLC

\* ------------------------------------------------------------------ bounds

\* How many raster service calls may raise (or alignments yield no output)
\* in one run.
MaxFailures == 1

\* How many progress notifications a run is followed for
MaxProgress == 1

\* The longest NPV collection
MaxMappings == 3

\* ------------------------------------------------------------- data values

\* A raster reference is the sequence of the source name and the operations
\* that produced it; None (Python's None) is the empty sequence.
None == <<>>

PathwayIds == {"p1", "p2"}

\* An activity object. ref is the identity of the object: the position of
\* the activity in analysis_implementation_models for the objects the task
\* was constructed with, 0 for an object created later.
Activity(ref, name, path, pathways, pl_none, pls, spv) ==
    [ref |-> ref, name |-> name, path |-> path, pathways |-> pathways,
     priority_layers_none |-> pl_none, priority_layers |-> pls,
     style_pixel_value |-> spv]

\* clone_implementation_model: a new object with the fields of the activity
clone_implementation_model(model) == [model EXCEPT !.ref = 0]

\* A priority layer reference held by an activity: {"uuid": .., "path": ..}
Pwl(uuid) == [uuid |-> uuid, path |-> <<uuid>>]

\* The model lists a run can be constructed with.
\*  1: A has two pathways, B only a direct raster, no priority layers
\*  2: A and B share pathway p1, B also has p2; the priority_layers of B is
\*     None; A has a priority layer that resolves (w1), one whose record has
\*     no path (w3) and one whose groups all have the value 0 (w5)
\*  3: no activity has any pathway
\*  4: B has neither a direct raster nor a pathway
\*  5: A has a pathway, B a direct raster; they have the same
\*     style_pixel_value. A has a priority layer; B has one that resolves
\*     (w1) and two that do not (w2 has no record in the settings store, w4
\*     names a file that does not exist)
\*  6: one activity with a pathway, whose priority_layers is None
ModelLists ==
    { << Activity(1, "A", None, <<"p1", "p2">>, FALSE, <<>>, 2),
         Activity(2, "B", <<"B">>, <<>>, FALSE, <<>>, 1) >>,
      << Activity(1, "A", None, <<"p1">>, FALSE,
                  <<Pwl("w1"), Pwl("w3"), Pwl("w5")>>, 1),
         Activity(2, "B", None, <<"p1", "p2">>, TRUE, <<>>, 1) >>,
      << Activity(1, "A", <<"A">>, <<>>, TRUE, <<>>, 1),
         Activity(2, "B", <<"B">>, <<>>, FALSE, <<Pwl("w1")>>, 2) >>,
      << Activity(1, "A", None, <<"p1">>, FALSE, <<Pwl("w1")>>, 1),
         Activity(2, "B", None, <<>>, TRUE, <<>>, 2) >>,
      << Activity(1, "A", None, <<"p1">>, FALSE, <<Pwl("w1")>>, 1),
         Activity(2, "B", <<"B">>, <<>>, FALSE,
                  <<Pwl("w1"), Pwl("w2"), Pwl("w4")>>, 1) >>,
      << Activity(1, "A", None, <<"p1">>, TRUE, <<>>, 1) >> }

\* The raster files that do not exist on disk
MissingFiles == { <<"c3">>, <<"w4">> }

\* Path(carbon_path).exists()
Exists(path) == path \notin MissingFiles

\* The carbon layers of the pathways: none; two files for p1; three for p1,
\* the last of which does not exist.
CarbonLists ==
    { [p \in PathwayIds |-> <<>>],
      [p \in PathwayIds |-> IF p = "p1" THEN << <<"c1">>, <<"c2">> >> ELSE <<>>],
      [p \in PathwayIds |-> IF p = "p1" THEN << <<"c1">>, <<"c2">>, <<"c3">> >>
                                        ELSE <<>>] }

\* Settings.CARBON_COEFFICIENT and Settings.PATHWAY_SUITABILITY_INDEX
Coefficients == {0, 2}

\* analysis_priority_layers_groups: a list of group dictionaries
GroupLists == { <<>>, << [name |-> "g1", value |-> 1] >> }

\* The items whose band statistics have max < min: none, a pathway, an activity
InvalidStatsSets == { {}, {"p2"}, {"A"} }

\* QgsRectangle(xMinimum, yMinimum, xMaximum, yMaximum)
QgsRectangle(left, bottom, right, top) ==
    [xMinimum |-> left, yMinimum |-> bottom, xMaximum |-> right, yMaximum |-> top]

\* The coordinates and pixel sizes tried by the specification of the extent
\* alignment: whole numbers, a pixel size of 0 for a degenerate raster
MaxCoordinate == 2
RasterExtents ==
    { QgsRectangle(x, 0, x + 4, t) : x \in {-1, 0}, t \in {4, 5} }
PixelSizes == 0..3
TargetExtents ==
    { QgsRectangle(l, b, r, t) :
        l \in (0 - MaxCoordinate)..MaxCoordinate, r \in 1..(MaxCoordinate + 1),
        b \in {-1, 1}, t \in {2, 6} }

\* QgsRasterLayer: extent(), rasterUnitsPerPixelX(), rasterUnitsPerPixelY()
RasterLayer(raster_extent, x_res, y_res) ==
    [extent |-> raster_extent, rasterUnitsPerPixelX |-> x_res,
     rasterUnitsPerPixelY |-> y_res]

RasterLayers ==
    { RasterLayer(e, x, y) : e \in RasterExtents, x \in PixelSizes, y \in PixelSizes }

\* The band statistics and pixel values tried by the specification of the
\* normalization expression: whole numbers from 0 to MaxPixel
MaxPixel == 3
PixelSamples ==
    { [min_value |-> lo, max_value |-> hi, value |-> v, evaluated |-> FALSE,
       normalized |-> [num |-> 0, den |-> 1]] :
        lo \in 0..MaxPixel, hi \in 0..MaxPixel, v \in 0..MaxPixel }
NormalizationCoefficients == (0 - 1)..2

\* --------------------------------------------------------------- variables

VARIABLES
    analysis_implementation_models, \* the activities, in order
    pathway_path,                   \* Pathway.path of each pathway object
    carbon_paths,                   \* Pathway.carbon_paths
    analysis_priority_layers_groups,
    settings_implementation_models, \* the activities as the settings store holds them
    carbon_coefficient, suitability_index, snapping_enabled,
    invalid_stats,                  \* items whose bandStatistics give max < min
    raster_layer,                   \* target layer: extent and units per pixel
    processing_extent,              \* the extent of the analysis
    snapped_extent,                 \* what align_extent returned
    pixel,                          \* one pixel of a raster being normalized
    analysis_weighted_ims,          \* [none, list]: None or a list of clones
    scenario_result, output,        \* BOOLEAN: assigned or still None
    success, error,                 \* self.success, self.error
    status_message, info_message,
    processing_cancelled,           \* the flag the stages poll
    isCanceled,                     \* QgsTask's own flag, set by self.cancel()
    feedback,                       \* self.feedback: the stage that created it
    stack,                          \* call stack of run(), innermost last
    lastRet,                        \* value returned by the last return
    returns,                        \* every return of a stage method, in order
    calls,                          \* every raster service call launched
    failures,                       \* service calls that raised so far
    raised,                         \* every exception raised, in order
    rasters,                        \* the raster files the run has written
    custom_progress_changed,        \* emissions of the progress signal so far
    npv_collection,                 \* create_npv_pwls: [mappings, remove_existing]
    base_dir,                       \* Settings.BASE_DIR is configured
    npv,                            \* create_npv_pwls: its position, the calls
                                    \* it made, the files and settings entries
    runResult, uncaught             \* how run() ended

vars == << analysis_implementation_models, pathway_path, carbon_paths,
           analysis_priority_layers_groups, settings_implementation_models,
           carbon_coefficient, suitability_index, snapping_enabled,
           invalid_stats, raster_layer, processing_extent, snapped_extent,
           pixel, analysis_weighted_ims, scenario_result, output, success, error,
           status_message, info_message, processing_cancelled, isCanceled,
           feedback, stack, lastRet, returns, calls, failures, raised,
           rasters, custom_progress_changed, npv_collection, base_dir, npv,
           runResult, uncaught >>

\* The settings and inputs no step of the run writes, the count of progress
\* notifications, which only update_progress writes, and the state of
\* lib.financials.create_npv_pwls, which no method of the task touches.
inputVars == << analysis_priority_layers_groups, custom_progress_changed,
                npv_collection, base_dir, npv,
                settings_implementation_models, carbon_coefficient,
                suitability_index, snapping_enabled, invalid_stats,
                raster_layer, processing_extent >>

\* The inputs, the extent that only the alignment at the start of run()
\* writes, and the pixel that only the raster calculator writes.
settingsVars == << inputVars, snapped_extent, pixel >>

\* ------------------------------------------------------------ call frames

\* The frame of a method that is called now; first is the position in the
\* log of the first service call that can be launched during the invocation
Frame(fn) == [fn |-> fn, pc |-> "enter", i |-> 1, j |-> 1,
              items |-> <<>>, acc |-> <<>>, arg |-> "list",
              first |-> Len(calls) + 1]

Top == stack[Len(stack)]
Pop == SubSeq(stack, 1, Len(stack) - 1)
At(fn, pc) == stack /= <<>> /\ Top.fn = fn /\ Top.pc = pc

NoError == [fn |-> "", kind |-> "None"]
Exception(fn, kind) == [fn |-> fn, kind |-> kind]

\* Return values: True, False, None, or the tuple of run_models_weighting
RetVal(kind) == [kind |-> kind, models_none |-> FALSE, models |-> <<>>,
                 result |-> FALSE, path |-> <<>>]
RetTuple(models_none, models, result) ==
    [kind |-> "Tuple", models_none |-> models_none, models |-> models,
     result |-> result, path |-> <<>>]
RetPath(path) == [RetVal("Path") EXCEPT !.path = path]

\* The methods whose body is a try/except that records the exception.
StageFns == { "snap_analysis_data", "run_pathways_analysis",
              "run_pathways_normalization", "run_models_analysis",
              "run_models_normalization", "run_models_weighting",
              "run_models_cleaning", "run_highest_position_analysis" }

\* What each except block returns once it has recorded the exception.
\* run_pathways_analysis has no return in its except block and falls through
\* to the "return True" that ends the method.
HandlerReturn(fn) ==
    CASE fn = "run_pathways_analysis" -> RetVal("True")
      [] fn = "run_models_weighting" -> RetTuple(TRUE, <<>>, FALSE)
      [] OTHER -> RetVal("False")

\* The innermost frame with an except block, 0 when there is none.
RECURSIVE HandlerIndex(_)
HandlerIndex(k) ==
    IF k = 0 THEN 0
    ELSE IF stack[k].fn \in StageFns THEN k ELSE HandlerIndex(k - 1)

\* The control part of the state, as every step leaves it.
Control == [stack |-> stack, lastRet |-> lastRet, returns |-> returns,
            error |-> error, isCanceled |-> isCanceled, raised |-> raised,
            rasters |-> rasters, runResult |-> runResult, uncaught |-> uncaught]

\* The top frame moves on.
Goto(frame) == [Control EXCEPT !.stack = Append(Pop, frame)]

\* The top frame calls a method and will continue at frame when it returns.
Call(frame, callee) == [Control EXCEPT !.stack = Append(Append(Pop, frame), callee)]

\* The top frame returns v to its caller.
Return(v) == [Control EXCEPT !.stack = Pop, !.lastRet = v,
                             !.returns = Append(returns, [fn |-> Top.fn, val |-> v])]

\* An exception of the given kind is raised in the top frame: the innermost
\* except block records it in self.error, calls self.cancel() (QgsTask.cancel,
\* which does not touch processing_cancelled) and returns; with no except
\* block on the stack the exception leaves run(). The exception is logged
\* with the method that raised it and the number of calls launched so far
\* (for a service error, the index of the call that failed).
Raise(kind) ==
    LET h == HandlerIndex(Len(stack))
        log == Append(raised, [fn |-> Top.fn, kind |-> kind, call |-> Len(calls)])
    IN
    IF h = 0
    THEN [Control EXCEPT !.stack = <<>>, !.runResult = "raised",
                         !.raised = log,
                         !.uncaught = Exception(Top.fn, kind)]
    ELSE [Control EXCEPT !.stack = SubSeq(stack, 1, h - 1),
                         !.raised = log,
                         !.error = Exception(stack[h].fn, kind),
                         !.isCanceled = TRUE,
                         !.lastRet = HandlerReturn(stack[h].fn),
                         !.returns = Append(returns,
                              [fn |-> stack[h].fn, val |-> HandlerReturn(stack[h].fn)])]

Commit(c) ==
    /\ stack' = c.stack
    /\ lastRet' = c.lastRet
    /\ returns' = c.returns
    /\ error' = c.error
    /\ isCanceled' = c.isCanceled
    /\ raised' = c.raised
    /\ rasters' = c.rasters
    /\ runResult' = c.runResult
    /\ uncaught' = c.uncaught

Written_ReplacedDeleted(c, replaced, path) ==
    [c EXCEPT !.rasters = (rasters \ {replaced}) \cup {path}]

\* A raster service call returned: the file it was given as OUTPUT now
\* exists, next to the raster it was computed from, which the item's path
\* will no longer name
Written(c, replaced, path) == [c EXCEPT !.rasters = rasters \cup {path}]

\* A raster service call, as launched.
ServiceCall(alg, item, inputs, expression) ==
    [alg |-> alg, stage |-> Top.fn, item |-> item, inputs |-> inputs,
     expression |-> expression, feedback |-> feedback, cancelled |-> processing_cancelled]

\* ----------------------------------------------------------------- helpers

RECURSIVE Dedup(_, _)
\* "if not (pathway in pathways): pathways.append(pathway)" over a list
Dedup(seq, seen) ==
    IF seq = <<>> THEN seen
    ELSE Dedup(Tail(seq),
               IF \E k \in 1..Len(seen) : seen[k] = Head(seq)
               THEN seen ELSE Append(seen, Head(seq)))

RECURSIVE Flatten(_)
Flatten(seqs) == IF seqs = <<>> THEN <<>> ELSE Head(seqs) \o Flatten(Tail(seqs))

\* The pathways of the models, one entry for each activity that has it
UniquePathways_Repeated(models) ==
    Flatten([k \in 1..Len(models) |-> models[k].pathways])

\* The unique pathways of the models, in the order the stage loops meet them.
UniquePathways(models) ==
    Dedup(Flatten([k \in 1..Len(models) |-> models[k].pathways]), <<>>)

\* "not model.pathways and (model.path is None or model.path is '')"
HasNeither(model) == model.pathways = <<>> /\ model.path = None

AnyHasNeither(models) == \E k \in 1..Len(models) : HasNeither(models[k])

\* models_paths: the direct paths of the models
AnyModelPath(models) == \E k \in 1..Len(models) : models[k].path /= None

\* The flag with the two polls of the highest position stage left out
Polled_SkippedInHighestPosition(fn) ==
    fn /= "run_highest_position_analysis" /\ processing_cancelled

\* self.processing_cancelled as a stage reads it
Polled(fn) == processing_cancelled

\* A term of a raster calculator expression: coefficient * (sum(layers) / divisor)
Term(coefficient, layers, divisor) ==
    [coefficient |-> coefficient, layers |-> layers, divisor |-> divisor]

\* What a service call may do when it completes: return, or raise while the
\* budget of failures lasts. A call given no input raster is refused by the
\* processing framework and always raises, and a file that does not exist
\* cannot be aligned.
Outcomes(call) ==
    IF call.inputs = <<>> THEN {"raises"}
    ELSE IF call.alg = "align_rasters" /\ ~Exists(call.inputs[1]) THEN {"raises"}
    ELSE IF failures < MaxFailures THEN {"returns", "raises"} ELSE {"returns"}

LastCall == calls[Len(calls)]

\* -------------------------------------------------------------------- Init

\* The pixel of the runs of the pipeline
OnePixel == [min_value |-> 0, max_value |-> 1, value |-> 0, evaluated |-> FALSE,
             normalized |-> [num |-> 0, den |-> 1]]

\* An activity NPV mapping: whether activity and params are set, whether it
\* is enabled, and its base_name, which is clean and names its raster file
ActivityNpv(base_name, activity, params, enabled) ==
    [base_name |-> base_name, activity |-> activity, params |-> params,
     enabled |-> enabled]

\* create_npv_pwls as it has not been called
NpvState(pc, files) ==
    [pc |-> pc, current_step |-> 1, calls |-> <<>>, finished |-> <<>>,
     files |-> files, pwls |-> files, failed |-> {}, undeleted |-> {}]

\* No NPV collection is being processed
NoNpvRun ==
    /\ npv_collection = [mappings |-> <<>>, remove_existing |-> FALSE]
    /\ base_dir = FALSE
    /\ npv = NpvState("idle", {})

\* The fields __init__ sets, and run() about to start
Constructed ==
    /\ settings_implementation_models = analysis_implementation_models
    /\ pathway_path = [p \in PathwayIds |-> <<p>>]
    /\ snapped_extent = processing_extent
    /\ analysis_weighted_ims = [none |-> FALSE, list |-> <<>>]
    /\ scenario_result = FALSE
    /\ output = FALSE
    /\ success = TRUE
    /\ error = NoError
    /\ status_message = ""
    /\ info_message = ""
    /\ processing_cancelled = FALSE
    /\ isCanceled = FALSE
    /\ feedback = "__init__"
    /\ calls = <<>>
    /\ stack = << [Frame("run") EXCEPT !.pc = "start"] >>
    /\ lastRet = RetVal("None")
    /\ returns = <<>>
    /\ failures = 0
    /\ raised = <<>>
    /\ rasters = {}
    /\ custom_progress_changed = 0
    /\ NoNpvRun
    /\ runResult = "none"
    /\ uncaught = NoError

\* The runs of the pipeline: every configuration of activities and settings,
\* over one target layer and extent
Init ==
    /\ analysis_implementation_models \in ModelLists
    /\ carbon_paths \in CarbonLists
    /\ analysis_priority_layers_groups \in GroupLists
    /\ carbon_coefficient \in Coefficients
    /\ suitability_index \in Coefficients
    /\ snapping_enabled \in BOOLEAN
    /\ invalid_stats \in InvalidStatsSets
    \* rasters with invalid statistics are tried in the runs without
    \* snapping and without carbon layers
    /\ invalid_stats /= {} =>
          (~snapping_enabled /\ \A p \in PathwayIds : carbon_paths[p] = <<>>)
    /\ raster_layer = RasterLayer(QgsRectangle(0, 0, 4, 4), 1, 1)
    /\ processing_extent = QgsRectangle(0, 1, 1, 2)
    /\ pixel = OnePixel
    /\ Constructed

\* ------------------------------------------------------ external canceller

\* A raster service call has been launched and has not completed.
InFlight == stack /= <<>> /\ Top.pc \in {"inflight", "align", "translate", "warp"}

\* The owner of the task sets processing_cancelled while run() executes: in
\* the time a service call takes, or while run() is between two stages. The
\* instants between a poll of the flag and the launch that follows it are
\* not opened, so a poll and the launch it guards are one step.
Cancel ==
    /\ stack /= <<>>
    /\ InFlight \/ Top.fn = "run"
    /\ ~processing_cancelled
    /\ processing_cancelled' = TRUE
    /\ UNCHANGED << analysis_implementation_models, pathway_path, carbon_paths,
                    settingsVars, analysis_weighted_ims, scenario_result,
                    output, success, error, status_message, info_message,
                    isCanceled, feedback, stack, lastRet, returns, calls,
                    failures, raised, rasters, runResult, uncaught >>

\* The handler with the test of the flag left out
UpdateProgress_EmitsAlways ==
    /\ InFlight
    /\ custom_progress_changed < MaxProgress
    /\ custom_progress_changed' = custom_progress_changed + 1
    /\ UNCHANGED << analysis_implementation_models, pathway_path, carbon_paths,
                    analysis_priority_layers_groups,
                    settings_implementation_models, carbon_coefficient,
                    suitability_index, snapping_enabled, invalid_stats,
                    raster_layer, processing_extent, snapped_extent, pixel,
                    npv_collection, base_dir, npv,
                    analysis_weighted_ims, scenario_result,
                    output, success, error, status_message, info_message,
                    processing_cancelled, isCanceled, feedback, stack, lastRet,
                    returns, calls, failures, raised, rasters, runResult,
                    uncaught >>

\* Lines 245-259: the raster service reports progress through the handle it
\* was passed, which the stage connected to update_progress. While the flag
\* is not set, update_progress emits custom_progress_changed through
\* set_custom_progress; once it is set, it rebinds self.feedback to a new
\* handle (which it does not connect) and self.processing_context, and emits
\* nothing. A rebinding is followed once for each handle, and notifications
\* up to MaxProgress.
UpdateProgress ==
    /\ InFlight
    /\ IF ~processing_cancelled
       THEN /\ custom_progress_changed < MaxProgress
            /\ custom_progress_changed' = custom_progress_changed + 1
            /\ UNCHANGED feedback
       ELSE /\ feedback /= "update_progress"
            /\ feedback' = "update_progress"
            /\ UNCHANGED custom_progress_changed
    /\ UNCHANGED << analysis_implementation_models, pathway_path, carbon_paths,
                    analysis_priority_layers_groups,
                    settings_implementation_models, carbon_coefficient,
                    suitability_index, snapping_enabled, invalid_stats,
                    raster_layer, processing_extent, snapped_extent, pixel,
                    npv_collection, base_dir, npv,
                    analysis_weighted_ims, scenario_result,
                    output, success, error, status_message, info_message,
                    processing_cancelled, isCanceled, stack, lastRet, returns,
                    calls, failures, raised, rasters, runResult, uncaught >>

\* The progress reports the runs of the pipeline are followed through: those
\* of gdal:translate (line 339) that arrive after the run was cancelled.
\* gdal:warpreproject is the one call launched after another with neither a
\* poll of the flag nor a rebinding of self.feedback in between, so it is
\* the one call a handle bound by update_progress can be passed to. The
\* reports that arrive before cancellation only emit a notification and
\* change nothing a stage reads.
ProgressAfterCancel ==
    /\ stack /= <<>>
    /\ Top.pc = "translate"
    /\ processing_cancelled
    /\ UpdateProgress

\* --------------------------------------------------------------------- run

\* What the steps of run() itself leave alone.
runFrame == << analysis_implementation_models, pathway_path, carbon_paths,
               settingsVars, scenario_result, output, success,
               status_message, info_message, processing_cancelled, feedback,
               calls, failures >>

\* Lines 107-141: the first pathway of the models is selected and the target
\* layer is built from selected_pathway.path, which raises AttributeError
\* outside any try block when no model has a pathway.
RunStart ==
    /\ At("run", "start")
    /\ Commit(IF UniquePathways(analysis_implementation_models) = <<>>
              THEN Raise("AttributeError")
              ELSE Goto([Top EXCEPT !.pc = "align_extent"]))
    /\ UNCHANGED << runFrame, analysis_weighted_ims >>

\* math.floor(a / b) and math.ceil(a / b) for a pixel size b > 0
Floor(a, b) == a \div b
Ceil(a, b) == 0 - ((0 - a) \div b)

\* The aligned extent with the top bound rounded towards the target
AlignedExtent_CeilTop(layer, target_extent) ==
    LET raster_extent == layer.extent
        x_res == layer.rasterUnitsPerPixelX
        y_res == layer.rasterUnitsPerPixelY
    IN  QgsRectangle(
          raster_extent.xMinimum
            + x_res * Floor(target_extent.xMinimum - raster_extent.xMinimum, x_res),
          raster_extent.yMinimum
            + y_res * Floor(target_extent.yMinimum - raster_extent.yMinimum, y_res),
          raster_extent.xMinimum
            + x_res * Ceil(target_extent.xMaximum - raster_extent.xMinimum, x_res),
          raster_extent.yMaximum
            - y_res * Ceil(raster_extent.yMaximum - target_extent.yMaximum, y_res))

\* Lines 274-292: left, bottom, right and top of the aligned extent
AlignedExtent(layer, target_extent) ==
    LET raster_extent == layer.extent
        x_res == layer.rasterUnitsPerPixelX
        y_res == layer.rasterUnitsPerPixelY
        left == raster_extent.xMinimum
                  + x_res * Floor(target_extent.xMinimum - raster_extent.xMinimum, x_res)
        right == raster_extent.xMinimum
                  + x_res * Ceil(target_extent.xMaximum - raster_extent.xMinimum, x_res)
        bottom == raster_extent.yMinimum
                  + y_res * Floor(target_extent.yMinimum - raster_extent.yMinimum, y_res)
        top == raster_extent.yMaximum
                  - y_res * Floor(raster_extent.yMaximum - target_extent.yMaximum, y_res)
    IN  QgsRectangle(left, bottom, right, top)

\* The divisions of lines 277-290 raise ZeroDivisionError for a pixel size 0
DivisionFails(layer) ==
    layer.rasterUnitsPerPixelX = 0 \/ layer.rasterUnitsPerPixelY = 0

\* align_extent with the exception of the computation left to propagate
align_extent_NoHandler(layer, target_extent) ==
    IF DivisionFails(layer)
    THEN [raises |-> TRUE, value |-> target_extent]
    ELSE [raises |-> FALSE, value |-> AlignedExtent(layer, target_extent)]

\* Lines 273-303: the computation in a try block whose except clause logs
\* the exception, after which the target extent is returned
align_extent(layer, target_extent) ==
    IF DivisionFails(layer)
    THEN [raises |-> FALSE, value |-> target_extent]
    ELSE [raises |-> FALSE, value |-> AlignedExtent(layer, target_extent)]

\* Line 143: snapped_extent = self.align_extent(target_layer, processing_extent)
AlignExtent ==
    /\ At("run", "align_extent")
    /\ LET result == align_extent(raster_layer, processing_extent) IN
       IF result.raises
       THEN Commit(Raise("ZeroDivisionError")) /\ UNCHANGED snapped_extent
       ELSE /\ snapped_extent' = result.value
            /\ Commit(Goto([Top EXCEPT !.pc = "snap"]))
    /\ UNCHANGED << analysis_implementation_models, pathway_path, carbon_paths,
                    inputVars, pixel, analysis_weighted_ims, scenario_result,
                    output, success, status_message, info_message,
                    processing_cancelled, feedback, calls, failures >>

RunSnapping ==
    /\ At("run", "snap")
    /\ Commit(IF snapping_enabled
              THEN Call([Top EXCEPT !.pc = "pathways_analysis"],
                        Frame("snap_analysis_data"))
              ELSE Goto([Top EXCEPT !.pc = "pathways_analysis"]))
    /\ UNCHANGED << runFrame, analysis_weighted_ims >>

RunPathwaysAnalysis ==
    /\ At("run", "pathways_analysis")
    /\ Commit(Call([Top EXCEPT !.pc = "pathways_normalization"],
                   Frame("run_pathways_analysis")))
    /\ UNCHANGED << runFrame, analysis_weighted_ims >>

RunPathwaysNormalization ==
    /\ At("run", "pathways_normalization")
    /\ Commit(Call([Top EXCEPT !.pc = "models_analysis"],
                   Frame("run_pathways_normalization")))
    /\ UNCHANGED << runFrame, analysis_weighted_ims >>

RunModelsAnalysis_CombinesAgain ==
    /\ At("run", "models_analysis")
    /\ Commit(Call([Top EXCEPT !.pc = "models_normalization"],
                   Frame("run_pathways_analysis")))
    /\ UNCHANGED << runFrame, analysis_weighted_ims >>

RunModelsAnalysis ==
    /\ At("run", "models_analysis")
    /\ Commit(Call([Top EXCEPT !.pc = "models_normalization"],
                   Frame("run_models_analysis")))
    /\ UNCHANGED << runFrame, analysis_weighted_ims >>

RunModelsNormalization ==
    /\ At("run", "models_normalization")
    /\ Commit(Call([Top EXCEPT !.pc = "models_weighting"],
                   Frame("run_models_normalization")))
    /\ UNCHANGED << runFrame, analysis_weighted_ims >>

RunModelsWeighting ==
    /\ At("run", "models_weighting")
    /\ Commit(Call([Top EXCEPT !.pc = "unpack"], Frame("run_models_weighting")))
    /\ UNCHANGED << runFrame, analysis_weighted_ims >>

\* Lines 209-219: "weighted_models, result = ..." raises TypeError when the
\* method returned None; otherwise the list (or None) is stored and passed
\* to run_models_cleaning.
RunModelsCleaning ==
    /\ At("run", "unpack")
    /\ IF lastRet.kind /= "Tuple"
       THEN /\ Commit(Raise("TypeError"))
            /\ UNCHANGED analysis_weighted_ims
       ELSE /\ analysis_weighted_ims' =
                   [none |-> lastRet.models_none, list |-> lastRet.models]
            /\ Commit(Call([Top EXCEPT !.pc = "highest_position"],
                           Frame("run_models_cleaning")))
    /\ UNCHANGED runFrame

RunHighestPosition ==
    /\ At("run", "highest_position")
    /\ Commit(Call([Top EXCEPT !.pc = "return"],
                   Frame("run_highest_position_analysis")))
    /\ UNCHANGED << runFrame, analysis_weighted_ims >>

\* Line 224: return True, whatever the stages returned
RunReturn ==
    /\ At("run", "return")
    /\ Commit([Control EXCEPT !.stack = <<>>, !.runResult = "True"])
    /\ UNCHANGED << runFrame, analysis_weighted_ims >>

\* A stage that called the next stage itself returns None when that returns.
ReturnNone ==
    /\ stack /= <<>>
    /\ Top.pc = "return_none"
    /\ Commit(Return(RetVal("None")))
    /\ UNCHANGED << runFrame, analysis_weighted_ims >>

\* --------------------------------------------------- run_pathways_analysis

stageFrame == << analysis_implementation_models, carbon_paths, settingsVars,
                 analysis_weighted_ims, scenario_result, output, success,
                 processing_cancelled >>

NoMessage == status_message' = status_message /\ info_message' = info_message
Status(msg) == status_message' = msg /\ info_message' = info_message
Info(status, msg) == status_message' = status /\ info_message' = msg

\* Lines 390-423
PathwaysAnalysisEnter ==
    /\ At("run_pathways_analysis", "enter")
    /\ LET models == analysis_implementation_models
           pathways == UniquePathways(models) IN
       IF Polled(Top.fn)
       THEN Commit(Return(RetVal("False"))) /\ NoMessage
       ELSE IF AnyHasNeither(models)
       THEN /\ Commit(Return(RetVal("False")))
            /\ Info("Adding models pathways with carbon layers",
                    "No defined model pathways or a model layer")
       ELSE IF pathways = <<>> /\ AnyModelPath(models)
       THEN /\ Commit(Call([Top EXCEPT !.pc = "return_none"],
                           Frame("run_pathways_normalization")))
            /\ Status("Adding models pathways with carbon layers")
       ELSE /\ Commit(Goto([Top EXCEPT !.pc = "loop", !.items = pathways]))
            /\ Status("Adding models pathways with carbon layers")
    /\ UNCHANGED << stageFrame, pathway_path, feedback, calls, failures >>

\* Lines 463-468: the carbon layers that enter the expression and the call,
\* which are those whose file exists
CarbonNames(p) == SelectSeq(carbon_paths[p], Exists)

\* Lines 443-481: the expression of one pathway. The carbon term sums the
\* carbon layers that exist and divides by len(pathway.carbon_paths).
CombinationExpression(p) ==
    LET base == Term(IF suitability_index > 0 THEN suitability_index ELSE 1,
                     << pathway_path[p] >>, 1)
        carbon_names == CarbonNames(p)
    IN  IF carbon_coefficient > 0 /\ Len(carbon_names) = 1
        THEN << base, Term(carbon_coefficient, carbon_names, 1) >>
        ELSE IF carbon_coefficient > 0 /\ Len(carbon_names) > 1
        THEN << base, Term(carbon_coefficient, carbon_names, Len(carbon_paths[p])) >>
        ELSE << base >>

\* Lines 435-516: one iteration of "for pathway in pathways"
PathwaysAnalysisLoop ==
    /\ At("run_pathways_analysis", "loop")
    /\ IF Top.i > Len(Top.items)
       THEN /\ Commit(Return(RetVal("True")))
            /\ UNCHANGED << feedback, calls >>
       ELSE LET p == Top.items[Top.i] IN
            IF Len(carbon_paths[p]) <= 0
            THEN /\ Commit(Goto([Top EXCEPT !.i = Top.i + 1]))
                 /\ UNCHANGED << feedback, calls >>
            ELSE IF carbon_coefficient <= 0 /\ suitability_index <= 0
            THEN /\ Commit(Call([Top EXCEPT !.pc = "return_none"],
                                Frame("run_pathways_normalization")))
                 /\ UNCHANGED << feedback, calls >>
            ELSE /\ feedback' = Top.fn
                 /\ IF Polled(Top.fn)
                    THEN Commit(Return(RetVal("False"))) /\ UNCHANGED calls
                    ELSE /\ calls' = Append(calls,
                                [ServiceCall("qgis:rastercalculator", p,
                                     << pathway_path[p] >> \o CarbonNames(p),
                                     CombinationExpression(p))
                                 EXCEPT !.feedback = Top.fn])
                         /\ Commit(Goto([Top EXCEPT !.pc = "inflight"]))
    /\ NoMessage
    /\ UNCHANGED << stageFrame, pathway_path, failures >>

\* Lines 511-526: the call returns and pathway.path is replaced, or raises
PathwaysAnalysisComplete ==
    /\ At("run_pathways_analysis", "inflight")
    /\ \E outcome \in Outcomes(LastCall) :
         IF outcome = "returns"
         THEN /\ pathway_path' = [pathway_path EXCEPT
                     ![Top.items[Top.i]] = Append(@, "combined")]
              /\ Commit(Written(Goto([Top EXCEPT !.pc = "loop", !.i = Top.i + 1]),
                                pathway_path[Top.items[Top.i]],
                                Append(pathway_path[Top.items[Top.i]], "combined")))
              /\ UNCHANGED failures
         ELSE /\ Commit(Raise("ServiceError"))
              /\ failures' = failures + 1
              /\ UNCHANGED pathway_path
    /\ NoMessage
    /\ UNCHANGED << stageFrame, feedback, calls >>

\* ---------------------------------------------- run_pathways_normalization

\* Lines 845, 885-895 (and 1127-1140): the factor the normalization
\* expression multiplies by: normalization_index when it is positive, and no
\* factor otherwise
NormalizationFactor ==
    LET normalization_index == carbon_coefficient + suitability_index IN
    IF normalization_index > 0 THEN normalization_index ELSE 1

\* Lines 845, 885-895: the normalization expression of a raster
NormalizationExpression(path) ==
    << Term(NormalizationFactor, << path >>, 1) >>

NormalizedPixel_NoOffset(value, min_value, max_value) ==
    [num |-> NormalizationFactor * value, den |-> max_value - min_value]

\* Lines 885-895: what the expression
\*   normalization_index * ("layer@1" - min_value) / (max_value - min_value)
\* evaluates to at a pixel, as the fraction num / den
NormalizedPixel(value, min_value, max_value) ==
    [num |-> NormalizationFactor * (value - min_value),
     den |-> max_value - min_value]

\* Lines 797-845
PathwaysNormalizationEnter ==
    /\ At("run_pathways_normalization", "enter")
    /\ LET models == analysis_implementation_models
           pathways == UniquePathways(models) IN
       IF Polled(Top.fn)
       THEN Commit(Return(RetVal("False"))) /\ NoMessage
       ELSE IF AnyHasNeither(models)
       THEN /\ Commit(Return(RetVal("False")))
            /\ Info("Normalization of pathways",
                    "No defined model pathways or a model layer")
       ELSE IF pathways = <<>> /\ AnyModelPath(models)
       THEN /\ Commit(Call([Top EXCEPT !.pc = "return_none"],
                           Frame("run_models_analysis")))
            /\ Status("Normalization of pathways")
       ELSE /\ Commit(Goto([Top EXCEPT !.pc = "loop", !.items = pathways]))
            /\ Status("Normalization of pathways")
    /\ UNCHANGED << stageFrame, pathway_path, feedback, calls, failures >>

\* Lines 847-923: one iteration; max < min raises before the call
PathwaysNormalizationLoop ==
    /\ At("run_pathways_normalization", "loop")
    /\ IF Top.i > Len(Top.items)
       THEN /\ Commit(Return(RetVal("True")))
            /\ UNCHANGED << feedback, calls >>
       ELSE LET p == Top.items[Top.i] IN
            IF p \in invalid_stats
            THEN /\ Commit(Raise("InvalidStatistics"))
                 /\ UNCHANGED << feedback, calls >>
            ELSE /\ feedback' = Top.fn
                 /\ IF Polled(Top.fn)
                    THEN Commit(Return(RetVal("False"))) /\ UNCHANGED calls
                    ELSE /\ calls' = Append(calls,
                                [ServiceCall("qgis:rastercalculator", p,
                                     << pathway_path[p] >>,
                                     NormalizationExpression(pathway_path[p]))
                                 EXCEPT !.feedback = Top.fn])
                         /\ Commit(Goto([Top EXCEPT !.pc = "inflight"]))
    /\ NoMessage
    /\ UNCHANGED << stageFrame, pathway_path, failures >>

\* Lines 918-935
PathwaysNormalizationComplete ==
    /\ At("run_pathways_normalization", "inflight")
    /\ \E outcome \in Outcomes(LastCall) :
         IF outcome = "returns"
         THEN /\ pathway_path' = [pathway_path EXCEPT
                     ![Top.items[Top.i]] = Append(@, "normalized")]
              /\ Commit(Written(Goto([Top EXCEPT !.pc = "loop", !.i = Top.i + 1]),
                                pathway_path[Top.items[Top.i]],
                                Append(pathway_path[Top.items[Top.i]], "normalized")))
              /\ UNCHANGED failures
         ELSE /\ Commit(Raise("ServiceError"))
              /\ failures' = failures + 1
              /\ UNCHANGED pathway_path
    /\ NoMessage
    /\ UNCHANGED << stageFrame, feedback, calls >>


\* ----------------------------------------------------- run_models_analysis

SetModelPath(models, k, path) == [models EXCEPT ![k].path = path]

\* "model.path = ..." on an object: a write to one of the objects of
\* analysis_implementation_models shows in that list, a write to any other
\* object does not.
WritePath(models, object, path) ==
    IF object.ref > 0 THEN SetModelPath(models, object.ref, path) ELSE models

\* Lines 992-996: the direct raster of the model, then its pathways' rasters
AggregationLayers(model) ==
    (IF model.path /= None THEN << model.path >> ELSE <<>>)
      \o [k \in 1..Len(model.pathways) |-> pathway_path[model.pathways[k]]]

\* Line 968: "not model.pathways and (model.path is None and model.path is '')"
RejectedByModelsAnalysis(model) ==
    model.pathways = <<>> /\ (model.path = None /\ model.path = << "" >>)

\* Lines 951-957
ModelsAnalysisEnter ==
    /\ At("run_models_analysis", "enter")
    /\ IF Polled(Top.fn)
       THEN Commit(Return(RetVal("False"))) /\ NoMessage
       ELSE /\ Commit(Goto([Top EXCEPT !.pc = "loop"]))
            /\ Status("Creating implementation models layers from pathways")
    /\ UNCHANGED << stageFrame, pathway_path, feedback, calls, failures >>

\* Lines 960-1027: one iteration; the feedback created here is a local that
\* is never bound to self.feedback
ModelsAnalysisLoop ==
    /\ At("run_models_analysis", "loop")
    /\ IF Top.i > Len(analysis_implementation_models)
       THEN Commit(Return(RetVal("True"))) /\ UNCHANGED calls /\ NoMessage
       ELSE LET model == analysis_implementation_models[Top.i] IN
            IF RejectedByModelsAnalysis(model)
            THEN /\ Commit(Return(RetVal("False")))
                 /\ Info(status_message, "No defined model pathways or a model layer")
                 /\ UNCHANGED calls
            ELSE IF Polled(Top.fn)
            THEN Commit(Return(RetVal("False"))) /\ UNCHANGED calls /\ NoMessage
            ELSE /\ calls' = Append(calls,
                        ServiceCall("native:cellstatistics", model.name,
                                    AggregationLayers(model), <<>>))
                 /\ Commit(Goto([Top EXCEPT !.pc = "inflight"]))
                 /\ NoMessage
    /\ UNCHANGED << stageFrame, pathway_path, feedback, failures >>

\* Lines 1022-1036
ModelsAnalysisComplete ==
    /\ At("run_models_analysis", "inflight")
    /\ \E outcome \in Outcomes(LastCall) :
         IF outcome = "returns"
         THEN /\ analysis_implementation_models' =
                   SetModelPath(analysis_implementation_models, Top.i,
                       << analysis_implementation_models[Top.i].name, "aggregated" >>)
              /\ Commit(Written(Goto([Top EXCEPT !.pc = "loop", !.i = Top.i + 1]),
                     analysis_implementation_models[Top.i].path,
                     << analysis_implementation_models[Top.i].name, "aggregated" >>))
              /\ UNCHANGED failures
         ELSE /\ Commit(Raise("ServiceError"))
              /\ failures' = failures + 1
              /\ UNCHANGED analysis_implementation_models
    /\ NoMessage
    /\ UNCHANGED << pathway_path, carbon_paths, settingsVars,
                    analysis_weighted_ims, scenario_result, output, success,
                    processing_cancelled, feedback, calls >>

\* ------------------------------------------------ run_models_normalization

\* Lines 1059-1063
ModelsNormalizationEnter ==
    /\ At("run_models_normalization", "enter")
    /\ IF Polled(Top.fn)
       THEN Commit(Return(RetVal("False"))) /\ NoMessage
       ELSE /\ Commit(Goto([Top EXCEPT !.pc = "loop"]))
            /\ Status("Normalization of the implementation models")
    /\ UNCHANGED << stageFrame, pathway_path, feedback, calls, failures >>

\* Lines 1066-1166: one iteration. The band statistics are read and used as
\* they are: there is no max < min test in this round.
ModelsNormalizationLoop ==
    /\ At("run_models_normalization", "loop")
    /\ IF Top.i > Len(analysis_implementation_models)
       THEN Commit(Return(RetVal("True"))) /\ UNCHANGED calls /\ NoMessage
       ELSE LET model == analysis_implementation_models[Top.i] IN
            IF model.path = None
            THEN /\ Commit(Return(RetVal("False")))
                 /\ Info(status_message,
                         IF processing_cancelled
                         THEN "Processing has been cancelled by the user."
                         ELSE "there is no map layer for the model")
                 /\ UNCHANGED calls
            ELSE IF Polled(Top.fn)
            THEN Commit(Return(RetVal("False"))) /\ UNCHANGED calls /\ NoMessage
            ELSE /\ calls' = Append(calls,
                        ServiceCall("qgis:rastercalculator", model.name,
                                    << model.path >>,
                                    NormalizationExpression(model.path)))
                 /\ Commit(Goto([Top EXCEPT !.pc = "inflight"]))
                 /\ NoMessage
    /\ UNCHANGED << stageFrame, pathway_path, feedback, failures >>

\* Lines 1161-1175
ModelsNormalizationComplete ==
    /\ At("run_models_normalization", "inflight")
    /\ \E outcome \in Outcomes(LastCall) :
         IF outcome = "returns"
         THEN /\ analysis_implementation_models' =
                   SetModelPath(analysis_implementation_models, Top.i,
                       Append(analysis_implementation_models[Top.i].path, "normalized"))
              /\ Commit(Written(Goto([Top EXCEPT !.pc = "loop", !.i = Top.i + 1]),
                     analysis_implementation_models[Top.i].path,
                     Append(analysis_implementation_models[Top.i].path, "normalized")))
              /\ UNCHANGED failures
         ELSE /\ Commit(Raise("ServiceError"))
              /\ failures' = failures + 1
              /\ UNCHANGED analysis_implementation_models
    /\ NoMessage
    /\ UNCHANGED << pathway_path, carbon_paths, settingsVars,
                    analysis_weighted_ims, scenario_result, output, success,
                    processing_cancelled, feedback, calls >>

\* ---------------------------------------------------- run_models_weighting

\* The priority layer records of the settings store, by uuid:
\* settings_manager.get_priority_layer / get_priority_layers
PriorityLayerIds == {"w1", "w3", "w4", "w5"}
PriorityLayerSettings(uuid) ==
    [present |-> uuid \in PriorityLayerIds, name |-> uuid,
     has_path |-> uuid /= "w3",
     path |-> IF uuid = "w3" THEN None ELSE << uuid >>,
     exists |-> uuid /= "w3" /\ Exists(<< uuid >>),
     groups |-> IF uuid = "w5" THEN << [value |-> 0] >>
                ELSE << [value |-> 1], [value |-> 0], [value |-> 2] >>]

\* settings_manager.get_implementation_model(str(model.uuid))
SettingsModel(model) ==
    LET k == CHOOSE k \in 1..Len(settings_implementation_models) :
                 settings_implementation_models[k].name = model.name
    IN  settings_implementation_models[k]

\* The terms of a layer, one per group whatever its coefficient
RECURSIVE GroupTerms_AnyCoefficient(_, _)
GroupTerms_AnyCoefficient(groups, pwl) ==
    IF groups = <<>> THEN <<>>
    ELSE << Term(Head(groups).value, << pwl >>, 1) >>
         \o GroupTerms_AnyCoefficient(Tail(groups), pwl)

\* Lines 1272-1282: the terms one resolved layer adds, one per group whose
\* coefficient is positive
RECURSIVE GroupTerms(_, _)
GroupTerms(groups, pwl) ==
    IF groups = <<>> THEN <<>>
    ELSE (IF Head(groups).value > 0
          THEN << Term(Head(groups).value, << pwl >>, 1) >> ELSE <<>>)
         \o GroupTerms(Tail(groups), pwl)

\* The terms of the layers, with no test that the file of a layer exists
RECURSIVE PriorityTerms_ExistenceUnchecked(_)
PriorityTerms_ExistenceUnchecked(layers) ==
    IF layers = <<>> THEN <<>>
    ELSE LET settings_layer == PriorityLayerSettings(Head(layers).uuid) IN
         (IF settings_layer.present /\ settings_layer.has_path
          THEN GroupTerms(settings_layer.groups, settings_layer.path)
          ELSE <<>>)
         \o PriorityTerms_ExistenceUnchecked(Tail(layers))

\* Lines 1242-1282: the terms of the layers of the settings model
RECURSIVE PriorityTerms(_)
PriorityTerms(layers) ==
    IF layers = <<>> THEN <<>>
    ELSE LET settings_layer == PriorityLayerSettings(Head(layers).uuid) IN
         (IF settings_layer.present /\ settings_layer.has_path
             /\ settings_layer.exists
          THEN GroupTerms(settings_layer.groups, settings_layer.path)
          ELSE <<>>)
         \o PriorityTerms(Tail(layers))

\* Lines 1217-1221, 1297: the activity raster term, then the layer terms
WeightingExpression(model) ==
    << Term(1, << model.path >>, 1) >>
       \o PriorityTerms(SettingsModel(model).priority_layers)

\* Lines 1220, 1278-1279: "if pwl not in layers: layers.append(pwl)"
WeightingLayers(model) ==
    LET terms == WeightingExpression(model) IN
    Dedup([k \in 1..Len(terms) |-> terms[k].layers[1]], <<>>)

\* The object the loop weights, with no clone made
WeightedModel_NoClone(original_model) == original_model

\* Line 1200: the object the loop weights is a clone of the activity
WeightedModel(original_model) == clone_implementation_model(original_model)

\* Lines 1191-1196
ModelsWeightingEnter ==
    /\ At("run_models_weighting", "enter")
    /\ IF Polled(Top.fn)
       THEN Commit(Return(RetTuple(FALSE, <<>>, FALSE))) /\ NoMessage
       ELSE /\ Commit(Goto([Top EXCEPT !.pc = "loop"]))
            /\ Status("Weighting implementation models")
    /\ UNCHANGED << stageFrame, pathway_path, feedback, calls, failures >>

\* Lines 1199-1325: one iteration, on a clone of the activity. With no
\* priority layer group the method calls run_models_cleaning(extent), the
\* extent string taking the place of the models, and then returns None.
ModelsWeightingLoop ==
    /\ At("run_models_weighting", "loop")
    /\ IF Top.i > Len(analysis_implementation_models)
       THEN /\ Commit(Return(RetTuple(FALSE, Top.acc, TRUE)))
            /\ UNCHANGED calls /\ NoMessage
       ELSE LET model == WeightedModel(analysis_implementation_models[Top.i]) IN
            IF model.path = None
            THEN /\ Commit(Return(RetTuple(FALSE, <<>>, FALSE)))
                 /\ Info(status_message, "there is no map layer for the model")
                 /\ UNCHANGED calls
            ELSE IF analysis_priority_layers_groups = <<>>
            THEN /\ Commit(Call([Top EXCEPT !.pc = "return_none"],
                                [Frame("run_models_cleaning") EXCEPT !.arg = "str"]))
                 /\ UNCHANGED calls /\ NoMessage
            ELSE IF model.priority_layers_none
            THEN /\ Commit(Goto([Top EXCEPT !.i = Top.i + 1]))
                 /\ UNCHANGED calls /\ NoMessage
            ELSE IF Polled(Top.fn)
            THEN /\ Commit(Return(RetTuple(FALSE, <<>>, FALSE)))
                 /\ UNCHANGED calls /\ NoMessage
            ELSE /\ calls' = Append(calls,
                        ServiceCall("qgis:rastercalculator", model.name,
                                    WeightingLayers(model),
                                    WeightingExpression(model)))
                 /\ Commit(Goto([Top EXCEPT !.pc = "inflight"]))
                 /\ NoMessage
    /\ UNCHANGED << stageFrame, pathway_path, feedback, failures >>

\* Lines 1320-1336: the clone's path is replaced and the clone is kept
ModelsWeightingComplete ==
    /\ At("run_models_weighting", "inflight")
    /\ LET model == WeightedModel(analysis_implementation_models[Top.i])
           path == Append(model.path, "weighted")
       IN  \E outcome \in Outcomes(LastCall) :
         IF outcome = "returns"
         THEN /\ analysis_implementation_models' =
                     WritePath(analysis_implementation_models, model, path)
              /\ Commit(Written(Goto([Top EXCEPT !.pc = "loop", !.i = Top.i + 1,
                     !.acc = Append(Top.acc, [model EXCEPT !.path = path])]),
                     model.path, path))
              /\ UNCHANGED failures
         ELSE /\ Commit(Raise("ServiceError"))
              /\ failures' = failures + 1
              /\ UNCHANGED analysis_implementation_models
    /\ NoMessage
    /\ UNCHANGED << carbon_paths, settingsVars, analysis_weighted_ims,
                    scenario_result, output, success, processing_cancelled,
                    pathway_path, feedback, calls >>

\* ----------------------------------------------------- run_models_cleaning

CleaningParameters_NoDataOfAggregation ==
    [IGNORE_NODATA |-> TRUE, OUTPUT_NODATA_VALUE |-> 0 - 9999, STATISTIC |-> 0]

\* Lines 1383-1391: the parameters of the cleaning call besides its input
\* and output; STATISTIC 0 is the sum
CleaningParameters ==
    [IGNORE_NODATA |-> TRUE, OUTPUT_NODATA_VALUE |-> 0, STATISTIC |-> 0]

\* Lines 1347-1350
ModelsCleaningEnter ==
    /\ At("run_models_cleaning", "enter")
    /\ IF Polled(Top.fn)
       THEN Commit(Return(RetVal("False"))) /\ NoMessage
       ELSE /\ Commit(Goto([Top EXCEPT !.pc = "loop"]))
            /\ Status("Updating weighted implementation models values")
    /\ UNCHANGED << stageFrame, pathway_path, feedback, calls, failures >>

\* Lines 1353-1408: one iteration of "for model in models". The models are
\* the list run() stored in analysis_weighted_ims (None when weighting
\* failed), or the characters of the extent string, which have no path.
ModelsCleaningLoop ==
    /\ At("run_models_cleaning", "loop")
    /\ IF Top.arg = "str"
       THEN Commit(Raise("AttributeError")) /\ UNCHANGED calls /\ NoMessage
       ELSE IF analysis_weighted_ims.none
       THEN Commit(Raise("TypeError")) /\ UNCHANGED calls /\ NoMessage
       ELSE IF Top.i > Len(analysis_weighted_ims.list)
       THEN Commit(Return(RetVal("True"))) /\ UNCHANGED calls /\ NoMessage
       ELSE LET model == analysis_weighted_ims.list[Top.i] IN
            IF model.path = None
            THEN /\ Commit(Return(RetVal("False")))
                 /\ Info(status_message, "there is no map layer for the model")
                 /\ UNCHANGED calls
            ELSE IF Polled(Top.fn)
            THEN Commit(Return(RetVal("False"))) /\ UNCHANGED calls /\ NoMessage
            ELSE /\ calls' = Append(calls,
                        ServiceCall("native:cellstatistics", model.name,
                                    << model.path >>, << CleaningParameters >>))
                 /\ Commit(Goto([Top EXCEPT !.pc = "inflight"]))
                 /\ NoMessage
    /\ UNCHANGED << stageFrame, pathway_path, feedback, failures >>

\* Lines 1404-1418
ModelsCleaningComplete ==
    /\ At("run_models_cleaning", "inflight")
    /\ \E outcome \in Outcomes(LastCall) :
         IF outcome = "returns"
         THEN /\ analysis_weighted_ims' = [analysis_weighted_ims EXCEPT
                     !.list[Top.i].path = Append(@, "cleaned")]
              /\ analysis_implementation_models' =
                     WritePath(analysis_implementation_models,
                               analysis_weighted_ims.list[Top.i],
                               Append(analysis_weighted_ims.list[Top.i].path, "cleaned"))
              /\ Commit(Written(Goto([Top EXCEPT !.pc = "loop", !.i = Top.i + 1]),
                     analysis_weighted_ims.list[Top.i].path,
                     Append(analysis_weighted_ims.list[Top.i].path, "cleaned")))
              /\ UNCHANGED failures
         ELSE /\ Commit(Raise("ServiceError"))
              /\ failures' = failures + 1
              /\ UNCHANGED << analysis_weighted_ims, analysis_implementation_models >>
    /\ NoMessage
    /\ UNCHANGED << pathway_path, carbon_paths,
                    settingsVars, scenario_result, output, success,
                    processing_cancelled, feedback, calls >>

\* ------------------------------------------- run_highest_position_analysis

\* An insertion that puts k before the indices of equal value
RECURSIVE InsertByPixelValue_Unstable(_, _, _)
InsertByPixelValue_Unstable(sorted, k, models) ==
    IF sorted = <<>> THEN << k >>
    ELSE IF models[k].style_pixel_value <= models[Head(sorted)].style_pixel_value
         THEN << k >> \o sorted
         ELSE << Head(sorted) >> \o InsertByPixelValue_Unstable(Tail(sorted), k, models)

\* sorted(..., key=style_pixel_value): a stable sort, here of the indices
RECURSIVE InsertByPixelValue(_, _, _)
InsertByPixelValue(sorted, k, models) ==
    IF sorted = <<>> THEN << k >>
    ELSE IF models[k].style_pixel_value < models[Head(sorted)].style_pixel_value
         THEN << k >> \o sorted
         ELSE << Head(sorted) >> \o InsertByPixelValue(Tail(sorted), k, models)

RECURSIVE SortedIndices(_, _)
SortedIndices(models, n) ==
    IF n = 0 THEN <<>>
    ELSE InsertByPixelValue(SortedIndices(models, n - 1), n, models)

\* Position of k in a sequence of distinct indices
PositionOf(k, seq) == CHOOSE r \in 1..Len(seq) : seq[r] = k

\* Lines 1479-1480: model.style_pixel_value = index + 1
Ranked(models) ==
    LET order == SortedIndices(models, Len(models)) IN
    [k \in 1..Len(models) |->
        [models[k] EXCEPT !.style_pixel_value = PositionOf(k, order)]]

\* "model.style_pixel_value = index + 1" on the objects of the weighted
\* list, as it shows in analysis_implementation_models
RECURSIVE WriteRanks(_, _)
WriteRanks(models, ranked) ==
    IF ranked = <<>> THEN models
    ELSE WriteRanks(IF Head(ranked).ref > 0
                    THEN [models EXCEPT ![Head(ranked).ref].style_pixel_value =
                                           Head(ranked).style_pixel_value]
                    ELSE models,
                    Tail(ranked))

\* Lines 1447-1455: whether layers[model.name] gets a raster, and which
HasLayer(model) == model.path /= None \/ model.pathways /= <<>>
LayerOf(model) ==
    IF model.path /= None THEN model.path
    ELSE pathway_path[model.pathways[Len(model.pathways)]]

\* The sources in the order of the weighted list
Sources_ListOrder(models) == [r \in 1..Len(models) |-> LayerOf(models[r])]

\* Lines 1482-1487: the sources, in rank order
Sources(models) ==
    LET order == SortedIndices(models, Len(models)) IN
    [r \in 1..Len(order) |-> LayerOf(models[order[r]])]

\* Lines 1426-1509: everything up to the launch of the rank statistics
HighestPositionEnter ==
    /\ At("run_highest_position_analysis", "enter")
    /\ IF Polled(Top.fn)
       THEN /\ Commit(Return(RetVal("None")))
            /\ UNCHANGED << scenario_result, analysis_weighted_ims,
                            analysis_implementation_models, feedback, calls >>
            /\ NoMessage
       ELSE /\ scenario_result' = TRUE
            /\ IF analysis_weighted_ims.none
               THEN /\ Commit(Raise("TypeError"))
                    /\ UNCHANGED << analysis_weighted_ims,
                                    analysis_implementation_models, feedback, calls >>
               ELSE LET models == analysis_weighted_ims.list IN
                    /\ analysis_weighted_ims' =
                          [analysis_weighted_ims EXCEPT !.list = Ranked(models)]
                    /\ analysis_implementation_models' =
                          WriteRanks(analysis_implementation_models, Ranked(models))
                    /\ IF \E k \in 1..Len(models) : ~HasLayer(models[k])
                       THEN /\ Commit(Raise("KeyError"))
                            /\ UNCHANGED << feedback, calls >>
                       ELSE /\ feedback' = Top.fn
                            /\ IF Polled(Top.fn)
                               THEN /\ Commit(Return(RetVal("False")))
                                    /\ UNCHANGED calls
                               ELSE /\ calls' = Append(calls,
                                         [ServiceCall(
                                            "native:highestpositioninrasterstack",
                                            "scenario", Sources(models), <<>>)
                                          EXCEPT !.feedback = Top.fn])
                                    /\ Commit(Goto([Top EXCEPT !.pc = "inflight"]))
            /\ Status("Calculating the highest position")
    /\ UNCHANGED << pathway_path, carbon_paths,
                    settingsVars, output, success, processing_cancelled, failures >>

\* Lines 1511-1529: self.output is set and the method returns True, or the
\* except block records the exception
HighestPositionComplete ==
    /\ At("run_highest_position_analysis", "inflight")
    /\ \E outcome \in Outcomes(LastCall) :
         IF outcome = "returns"
         THEN /\ output' = TRUE
              /\ Commit(Written(Return(RetVal("True")), None,
                                << "highest_position" >>))
              /\ UNCHANGED failures
         ELSE /\ Commit(Raise("ServiceError"))
              /\ failures' = failures + 1
              /\ UNCHANGED output
    /\ NoMessage
    /\ UNCHANGED << analysis_implementation_models, pathway_path, carbon_paths,
                    settingsVars, analysis_weighted_ims, scenario_result,
                    success, processing_cancelled, feedback, calls >>


\* ------------------------------------------------------ snap_analysis_data

snapFrame == << settingsVars, analysis_weighted_ims, scenario_result, output,
                success, processing_cancelled >>

\* Lines 542-589
SnapEnter ==
    /\ At("snap_analysis_data", "enter")
    /\ LET models == analysis_implementation_models IN
       IF Polled(Top.fn)
       THEN Commit(Return(RetVal("False"))) /\ NoMessage
       ELSE IF AnyHasNeither(models)
       THEN /\ Commit(Return(RetVal("False")))
            /\ Info("Snapping the selected models pathways",
                    "No defined model pathways or a model layer")
       ELSE /\ Commit(Goto([Top EXCEPT !.pc = "pathway",
                                       !.items = UniquePathways(models)]))
            /\ Status("Snapping the selected models pathways")
    /\ UNCHANGED << snapFrame, analysis_implementation_models, pathway_path,
                    carbon_paths, feedback, calls, failures >>

\* Lines 591-612: the top of "for pathway in pathways", the one place of the
\* method's loops where the flag is polled
SnapPathway ==
    /\ At("snap_analysis_data", "pathway")
    /\ Commit(IF Top.i > Len(Top.items)
              THEN Goto([Top EXCEPT !.pc = "priority", !.i = 1, !.j = 1,
                                    !.acc = <<>>])
              ELSE IF Polled(Top.fn)
              THEN Return(RetVal("False"))
              ELSE IF Len(carbon_paths[Top.items[Top.i]]) > 0
              THEN Goto([Top EXCEPT !.pc = "carbon", !.j = 1, !.acc = <<>>])
              ELSE Goto([Top EXCEPT !.pc = "pathway_layer"]))
    /\ NoMessage
    /\ UNCHANGED << snapFrame, analysis_implementation_models, pathway_path,
                    carbon_paths, feedback, calls, failures >>

\* Lines 614-637: one iteration of "for carbon_path in pathway.carbon_paths",
\* and the assignment of the snapped list that follows the loop
SnapCarbon ==
    /\ At("snap_analysis_data", "carbon")
    /\ LET p == Top.items[Top.i] IN
       IF Top.j > Len(carbon_paths[p])
       THEN /\ carbon_paths' = [carbon_paths EXCEPT ![p] = Top.acc]
            /\ Commit(Goto([Top EXCEPT !.pc = "pathway_layer"]))
       ELSE /\ Commit(Call([Top EXCEPT !.pc = "carbon_done"],
                           [Frame("snap_layer") EXCEPT
                               !.items = << carbon_paths[p][Top.j] >>]))
            /\ UNCHANGED carbon_paths
    /\ NoMessage
    /\ UNCHANGED << snapFrame, analysis_implementation_models, pathway_path,
                    feedback, calls, failures >>

\* Lines 632-635
SnapCarbonDone ==
    /\ At("snap_analysis_data", "carbon_done")
    /\ LET p == Top.items[Top.i] IN
       Commit(Goto([Top EXCEPT !.pc = "carbon", !.j = Top.j + 1,
                 !.acc = Append(Top.acc, IF lastRet.path /= None
                                         THEN lastRet.path
                                         ELSE carbon_paths[p][Top.j])]))
    /\ NoMessage
    /\ UNCHANGED << snapFrame, analysis_implementation_models, pathway_path,
                    carbon_paths, feedback, calls, failures >>

\* Lines 643-651
SnapPathwayLayer ==
    /\ At("snap_analysis_data", "pathway_layer")
    /\ Commit(Call([Top EXCEPT !.pc = "pathway_done"],
                   [Frame("snap_layer") EXCEPT
                       !.items = << pathway_path[Top.items[Top.i]] >>]))
    /\ NoMessage
    /\ UNCHANGED << snapFrame, analysis_implementation_models, pathway_path,
                    carbon_paths, feedback, calls, failures >>

\* Lines 652-653
SnapPathwayDone ==
    /\ At("snap_analysis_data", "pathway_done")
    /\ pathway_path' = IF lastRet.path /= None
                       THEN [pathway_path EXCEPT ![Top.items[Top.i]] = lastRet.path]
                       ELSE pathway_path
    /\ Commit(Goto([Top EXCEPT !.pc = "pathway", !.i = Top.i + 1]))
    /\ NoMessage
    /\ UNCHANGED << snapFrame, analysis_implementation_models, carbon_paths,
                    feedback, calls, failures >>

\* Lines 655-707: one iteration of the loops over the models and their
\* priority layers. The log line evaluates len(model.priority_layers) first.
SnapPriority ==
    /\ At("snap_analysis_data", "priority")
    /\ LET models == analysis_implementation_models IN
       IF Top.i > Len(models)
       THEN /\ Commit(Return(RetVal("True")))
            /\ UNCHANGED analysis_implementation_models
       ELSE LET model == models[Top.i] IN
            IF model.priority_layers_none
            THEN /\ Commit(Raise("TypeError"))
                 /\ UNCHANGED analysis_implementation_models
            ELSE IF Top.j > Len(model.priority_layers)
            THEN /\ analysis_implementation_models' =
                       IF Len(model.priority_layers) > 0
                       THEN [models EXCEPT ![Top.i].priority_layers = Top.acc]
                       ELSE models
                 /\ Commit(Goto([Top EXCEPT !.i = Top.i + 1, !.j = 1,
                                            !.acc = <<>>]))
            ELSE LET priority_layer == model.priority_layers[Top.j]
                     settings_layer == PriorityLayerSettings(priority_layer.uuid)
                 IN  /\ Commit(
                          IF ~settings_layer.present
                          THEN Goto([Top EXCEPT !.j = Top.j + 1])
                          ELSE IF ~settings_layer.has_path
                          THEN Raise("TypeError")
                          ELSE IF ~settings_layer.exists
                          THEN Goto([Top EXCEPT !.j = Top.j + 1,
                                        !.acc = Append(Top.acc, priority_layer)])
                          ELSE Call([Top EXCEPT !.pc = "priority_done"],
                                    [Frame("snap_layer") EXCEPT
                                        !.items = << settings_layer.path >>]))
                     /\ UNCHANGED analysis_implementation_models
    /\ NoMessage
    /\ UNCHANGED << snapFrame, pathway_path, carbon_paths, feedback, calls,
                    failures >>

\* Lines 702-705
SnapPriorityDone ==
    /\ At("snap_analysis_data", "priority_done")
    /\ LET priority_layer ==
               analysis_implementation_models[Top.i].priority_layers[Top.j] IN
       Commit(Goto([Top EXCEPT !.pc = "priority", !.j = Top.j + 1,
                 !.acc = Append(Top.acc,
                     IF lastRet.path /= None
                     THEN [priority_layer EXCEPT !.path = lastRet.path]
                     ELSE priority_layer)]))
    /\ NoMessage
    /\ UNCHANGED << snapFrame, analysis_implementation_models, pathway_path,
                    carbon_paths, feedback, calls, failures >>

\* -------------------------------------------------------------- snap_layer

\* Lines 755-762: align_rasters is called on the input layer
SnapLayerAlign ==
    /\ At("snap_layer", "enter")
    /\ calls' = Append(calls, ServiceCall("align_rasters", Top.items[1],
                                          << Top.items[1] >>, <<>>))
    /\ Commit(Goto([Top EXCEPT !.pc = "align"]))
    /\ NoMessage
    /\ UNCHANGED << snapFrame, analysis_implementation_models, pathway_path,
                    carbon_paths, feedback, failures >>

\* Lines 764-772: with an aligned raster replace_nodata is called; without
\* one, output_path was never bound and "return output_path" raises
SnapLayerAligned ==
    /\ At("snap_layer", "align")
    /\ \E outcome \in Outcomes(LastCall) :
         IF outcome = "returns"
         THEN /\ Commit(Written(Call([Top EXCEPT !.pc = "return"],
                             [Frame("replace_nodata") EXCEPT
                                 !.items = << Append(Top.items[1], "aligned"),
                                              Append(Top.items[1], "snapped") >>]),
                             Top.items[1], Append(Top.items[1], "aligned")))
              /\ UNCHANGED failures
         ELSE /\ Commit(Raise("UnboundLocalError"))
              /\ failures' = failures + 1
    /\ NoMessage
    /\ UNCHANGED << snapFrame, analysis_implementation_models, pathway_path,
                    carbon_paths, feedback, calls >>

\* Line 774
SnapLayerReturn ==
    /\ At("snap_layer", "return")
    /\ Commit(Return(RetPath(Append(Top.items[1], "snapped"))))
    /\ NoMessage
    /\ UNCHANGED << snapFrame, analysis_implementation_models, pathway_path,
                    carbon_paths, feedback, calls, failures >>

\* ---------------------------------------------------------- replace_nodata

\* Lines 326-345: the feedback is rebound and gdal:translate is run
ReplaceNodataTranslate ==
    /\ At("replace_nodata", "enter")
    /\ feedback' = Top.fn
    /\ calls' = Append(calls, [ServiceCall("gdal:translate", Top.items[1],
                                           << Top.items[1] >>, <<>>)
                               EXCEPT !.feedback = Top.fn])
    /\ Commit(Goto([Top EXCEPT !.pc = "translate"]))
    /\ NoMessage
    /\ UNCHANGED << snapFrame, analysis_implementation_models, pathway_path,
                    carbon_paths, failures >>

\* Lines 347-368: gdal:warpreproject is run on the translated raster
ReplaceNodataWarp ==
    /\ At("replace_nodata", "translate")
    /\ \E outcome \in Outcomes(LastCall) :
         IF outcome = "returns"
         THEN /\ calls' = Append(calls,
                     ServiceCall("gdal:warpreproject", Top.items[1],
                                 << Append(Top.items[1], "translated") >>, <<>>))
              /\ Commit(Written(Goto([Top EXCEPT !.pc = "warp"]), Top.items[1],
                                Append(Top.items[1], "translated")))
              /\ UNCHANGED failures
         ELSE /\ Commit(Raise("ServiceError"))
              /\ failures' = failures + 1
              /\ UNCHANGED calls
    /\ NoMessage
    /\ UNCHANGED << snapFrame, analysis_implementation_models, pathway_path,
                    carbon_paths, feedback >>

\* Line 370
ReplaceNodataReturn ==
    /\ At("replace_nodata", "warp")
    /\ \E outcome \in Outcomes(LastCall) :
         IF outcome = "returns"
         THEN /\ Commit(Written(Return(RetVal("True")),
                                Append(Top.items[1], "translated"), Top.items[2]))
              /\ UNCHANGED failures
         ELSE Commit(Raise("ServiceError")) /\ failures' = failures + 1
    /\ NoMessage
    /\ UNCHANGED << snapFrame, analysis_implementation_models, pathway_path,
                    carbon_paths, feedback, calls >>

\* ------------------------------------------------------------------- Next

Next ==
    \/ Cancel \/ ProgressAfterCancel
    \/ RunStart \/ AlignExtent \/ RunSnapping \/ RunPathwaysAnalysis
    \/ RunPathwaysNormalization \/ RunModelsAnalysis
    \/ RunModelsNormalization \/ RunModelsWeighting \/ RunModelsCleaning
    \/ RunHighestPosition \/ RunReturn \/ ReturnNone
    \/ SnapEnter \/ SnapPathway \/ SnapCarbon \/ SnapCarbonDone
    \/ SnapPathwayLayer \/ SnapPathwayDone \/ SnapPriority \/ SnapPriorityDone
    \/ SnapLayerAlign \/ SnapLayerAligned \/ SnapLayerReturn
    \/ ReplaceNodataTranslate \/ ReplaceNodataWarp \/ ReplaceNodataReturn
    \/ PathwaysAnalysisEnter \/ PathwaysAnalysisLoop \/ PathwaysAnalysisComplete
    \/ PathwaysNormalizationEnter \/ PathwaysNormalizationLoop
    \/ PathwaysNormalizationComplete
    \/ ModelsAnalysisEnter \/ ModelsAnalysisLoop \/ ModelsAnalysisComplete
    \/ ModelsNormalizationEnter \/ ModelsNormalizationLoop
    \/ ModelsNormalizationComplete
    \/ ModelsWeightingEnter \/ ModelsWeightingLoop \/ ModelsWeightingComplete
    \/ ModelsCleaningEnter \/ ModelsCleaningLoop \/ ModelsCleaningComplete
    \/ HighestPositionEnter \/ HighestPositionComplete

Spec == Init /\ [][Next]_vars

\* ---------------------------------------------------- the extent alignment

\* The start of run() over every target layer and extent, for one
\* configuration of activities and settings
InitExtent ==
    /\ analysis_implementation_models =
          << Activity(1, "A", None, <<"p1", "p2">>, FALSE, <<>>, 2),
             Activity(2, "B", <<"B">>, <<>>, FALSE, <<>>, 1) >>
    /\ carbon_paths = [p \in PathwayIds |-> <<>>]
    /\ analysis_priority_layers_groups = <<>>
    /\ carbon_coefficient = 0
    /\ suitability_index = 0
    /\ snapping_enabled = FALSE
    /\ invalid_stats = {}
    /\ raster_layer \in RasterLayers
    /\ processing_extent \in TargetExtents
    /\ pixel = OnePixel
    /\ Constructed

NextExtent == RunStart \/ AlignExtent

SpecExtent == InitExtent /\ [][NextExtent]_vars

\* ------------------------------------------- the normalization expression

\* The normalization expression over every pair of coefficients, band
\* statistics and pixel value, for one configuration of activities
InitNormalization ==
    /\ analysis_implementation_models =
          << Activity(1, "A", None, <<"p1", "p2">>, FALSE, <<>>, 2),
             Activity(2, "B", <<"B">>, <<>>, FALSE, <<>>, 1) >>
    /\ carbon_paths = [p \in PathwayIds |-> <<>>]
    /\ analysis_priority_layers_groups = <<>>
    /\ carbon_coefficient \in NormalizationCoefficients
    /\ suitability_index \in NormalizationCoefficients
    /\ snapping_enabled = FALSE
    /\ invalid_stats = {}
    /\ raster_layer = RasterLayer(QgsRectangle(0, 0, 4, 4), 1, 1)
    /\ processing_extent = QgsRectangle(0, 1, 1, 2)
    /\ pixel \in PixelSamples
    /\ Constructed

\* Lines 877-895: a raster whose statistics pass the max < min check is
\* normalized by the expression; the raster calculator evaluates it at a pixel
NormalizePixel ==
    /\ ~pixel.evaluated
    /\ ~(pixel.max_value < pixel.min_value)
    /\ pixel' = [pixel EXCEPT
                    !.evaluated = TRUE,
                    !.normalized = NormalizedPixel(pixel.value, pixel.min_value,
                                                   pixel.max_value)]
    /\ UNCHANGED << inputVars, snapped_extent, analysis_implementation_models,
                    pathway_path, carbon_paths, analysis_weighted_ims,
                    scenario_result, output, success, error, status_message,
                    info_message, processing_cancelled, isCanceled, feedback,
                    stack, lastRet, returns, calls, failures, raised,
                    rasters, runResult, uncaught >>

NextNormalization == NormalizePixel

SpecNormalization == InitNormalization /\ [][NextNormalization]_vars

\* ------------------------------------------- the highest position stage

\* Activities as run_highest_position_analysis can find them in
\* analysis_weighted_ims: with a raster of their own, with pathways only,
\* and with neither a raster nor pathways
WeightedActivities ==
    { Activity(0, "A", << "A", "weighted" >>, << "p1" >>, FALSE, <<>>, 2),
      Activity(0, "B", << "B", "weighted" >>, <<>>, FALSE, <<>>, 1),
      Activity(0, "C", None, << "p1", "p2" >>, FALSE, <<>>, 1),
      Activity(0, "D", None, <<>>, FALSE, <<>>, 3) }

\* The weighted sets: lists of one to three different activities
WeightedSets ==
    { << a >> : a \in WeightedActivities }
    \cup { s \in { << a, b >> : a \in WeightedActivities,
                                b \in WeightedActivities } : s[1] /= s[2] }
    \cup { s \in { << a, b, c >> : a \in WeightedActivities,
                                   b \in WeightedActivities,
                                   c \in WeightedActivities } :
             s[1] /= s[2] /\ s[1] /= s[3] /\ s[2] /= s[3] }

\* run_highest_position_analysis called on a task that holds a weighted
\* set, with the cancellation flag as its owner left it; the rank statistics
\* report progress at any time while they are in flight
InitHighestPosition ==
    /\ analysis_implementation_models =
          << Activity(1, "A", None, <<"p1", "p2">>, FALSE, <<>>, 2),
             Activity(2, "B", <<"B">>, <<>>, FALSE, <<>>, 1) >>
    /\ carbon_paths = [p \in PathwayIds |-> <<>>]
    /\ analysis_priority_layers_groups = <<>>
    /\ carbon_coefficient = 0
    /\ suitability_index = 0
    /\ snapping_enabled = FALSE
    /\ invalid_stats = {}
    /\ raster_layer = RasterLayer(QgsRectangle(0, 0, 4, 4), 1, 1)
    /\ processing_extent = QgsRectangle(0, 1, 1, 2)
    /\ pixel = OnePixel
    /\ settings_implementation_models = analysis_implementation_models
    /\ pathway_path = [p \in PathwayIds |-> <<p>>]
    /\ snapped_extent = processing_extent
    /\ analysis_weighted_ims \in [none : {FALSE}, list : WeightedSets]
    /\ scenario_result = FALSE
    /\ output = FALSE
    /\ success = TRUE
    /\ error = NoError
    /\ status_message = ""
    /\ info_message = ""
    /\ processing_cancelled \in BOOLEAN
    /\ isCanceled = FALSE
    /\ feedback = "__init__"
    /\ calls = <<>>
    /\ stack = << Frame("run_highest_position_analysis") >>
    /\ lastRet = RetVal("None")
    /\ returns = <<>>
    /\ failures = 0
    /\ raised = <<>>
    /\ rasters = {}
    /\ custom_progress_changed = 0
    /\ NoNpvRun
    /\ runResult = "none"
    /\ uncaught = NoError

NextHighestPosition ==
    \/ HighestPositionEnter \/ HighestPositionComplete
    \/ Cancel \/ UpdateProgress

SpecHighestPosition == InitHighestPosition /\ [][NextHighestPosition]_vars

\* ------------------------------------------ lib.financials.create_npv_pwls

\* The names of the mappings of a collection: its first is m1, and so on
BaseNames == << "m1", "m2", "m3", "m4" >>

\* The collections of up to MaxMappings mappings, with every combination of
\* activity, params and enabled
MappingFlags == [activity : BOOLEAN, params : BOOLEAN, enabled : BOOLEAN]
MappingLists ==
    UNION { { [k \in 1..n |-> ActivityNpv(BaseNames[k], f[k].activity,
                                          f[k].params, f[k].enabled)] :
                f \in [1..n -> MappingFlags] } : n \in 1..MaxMappings }

\* create_npv_pwls called with a collection; the rasters and settings
\* entries of an earlier call exist for all its mappings or for none
InitNpv ==
    /\ analysis_implementation_models =
          << Activity(1, "A", None, <<"p1", "p2">>, FALSE, <<>>, 2),
             Activity(2, "B", <<"B">>, <<>>, FALSE, <<>>, 1) >>
    /\ carbon_paths = [p \in PathwayIds |-> <<>>]
    /\ analysis_priority_layers_groups = <<>>
    /\ carbon_coefficient = 0
    /\ suitability_index = 0
    /\ snapping_enabled = FALSE
    /\ invalid_stats = {}
    /\ raster_layer = RasterLayer(QgsRectangle(0, 0, 4, 4), 1, 1)
    /\ processing_extent = QgsRectangle(0, 1, 1, 2)
    /\ pixel = OnePixel
    /\ settings_implementation_models = analysis_implementation_models
    /\ pathway_path = [p \in PathwayIds |-> <<p>>]
    /\ snapped_extent = processing_extent
    /\ analysis_weighted_ims = [none |-> FALSE, list |-> <<>>]
    /\ scenario_result = FALSE
    /\ output = FALSE
    /\ success = TRUE
    /\ error = NoError
    /\ status_message = ""
    /\ info_message = ""
    /\ processing_cancelled = FALSE
    /\ isCanceled = FALSE
    /\ feedback = "__init__"
    /\ calls = <<>>
    /\ stack = <<>>
    /\ lastRet = RetVal("None")
    /\ returns = <<>>
    /\ failures = 0
    /\ raised = <<>>
    /\ rasters = {}
    /\ custom_progress_changed = 0
    /\ runResult = "none"
    /\ uncaught = NoError
    /\ npv_collection \in [mappings : MappingLists, remove_existing : BOOLEAN]
    /\ base_dir \in BOOLEAN
    /\ \E existing \in BOOLEAN :
          npv = NpvState("enter",
                   IF existing
                   THEN { npv_collection.mappings[k].base_name :
                            k \in 1..Len(npv_collection.mappings) }
                   ELSE {})

\* What a step of create_npv_pwls leaves alone: the task
npvFrame == << analysis_implementation_models, pathway_path, carbon_paths,
               analysis_priority_layers_groups, settings_implementation_models,
               carbon_coefficient, suitability_index, snapping_enabled,
               invalid_stats, raster_layer, processing_extent, snapped_extent,
               pixel, analysis_weighted_ims, scenario_result, output, success,
               error, status_message, info_message, processing_cancelled,
               isCanceled, feedback, stack, lastRet, returns, calls, failures,
               raised, rasters, custom_progress_changed, runResult, uncaught,
               npv_collection, base_dir >>

\* Lines 83-92: without a base directory the function returns
NpvEnter ==
    /\ npv.pc = "enter"
    /\ npv' = [npv EXCEPT !.pc = IF base_dir THEN "loop" ELSE "returned"]
    /\ UNCHANGED npvFrame

\* Lines 94-146: one iteration of the loop up to the creation call. An
\* incomplete mapping is passed over; for a disabled one, when
\* remove_existing is set, each file of its name is unlinked, which can fail
\* with OSError for any of them (logged), and its settings entry is deleted;
\* for the others the constant raster is requested.
NpvLoop ==
    /\ npv.pc = "loop"
    /\ LET i == npv.current_step
           mappings == npv_collection.mappings IN
       IF i > Len(mappings)
       THEN npv' = [npv EXCEPT !.pc = "returned"]
       ELSE LET activity_npv == mappings[i]
                matching == npv.files \cap {activity_npv.base_name} IN
            IF ~activity_npv.activity \/ ~activity_npv.params
            THEN npv' = [npv EXCEPT !.current_step = i + 1]
            ELSE IF ~activity_npv.enabled
            THEN IF npv_collection.remove_existing
                 THEN \E kept \in SUBSET matching :
                        npv' = [npv EXCEPT
                                  !.current_step = i + 1,
                                  !.files = (npv.files \ matching) \cup kept,
                                  !.undeleted = npv.undeleted \cup kept,
                                  !.pwls = npv.pwls \ {activity_npv.base_name}]
                 ELSE npv' = [npv EXCEPT !.current_step = i + 1]
            ELSE npv' = [npv EXCEPT !.pc = "inflight",
                                    !.calls = Append(npv.calls, i)]
    /\ UNCHANGED npvFrame

\* The creation call with the except block left out: the exception leaves
\* the function
NpvComplete_NoHandler ==
    /\ npv.pc = "inflight"
    /\ LET i == npv.current_step IN
       \/ npv' = [npv EXCEPT !.pc = "loop", !.current_step = i + 1,
                     !.files = npv.files \cup {npv_collection.mappings[i].base_name},
                     !.finished = Append(npv.finished, i)]
       \/ /\ Cardinality(npv.failed) < MaxFailures
          /\ npv' = [npv EXCEPT !.pc = "raised", !.failed = npv.failed \cup {i}]
    /\ UNCHANGED npvFrame

\* Lines 147-156: native:createconstantrasterlayer returns, having written
\* the raster and called on_finish_func, or raises QgsProcessingException,
\* which is logged; the loop goes on with the next mapping
NpvComplete ==
    /\ npv.pc = "inflight"
    /\ LET i == npv.current_step IN
       \/ npv' = [npv EXCEPT !.pc = "loop", !.current_step = i + 1,
                     !.files = npv.files \cup {npv_collection.mappings[i].base_name},
                     !.finished = Append(npv.finished, i)]
       \/ /\ Cardinality(npv.failed) < MaxFailures
          /\ npv' = [npv EXCEPT !.pc = "loop", !.current_step = i + 1,
                                !.failed = npv.failed \cup {i}]
    /\ UNCHANGED npvFrame

NextNpv == NpvEnter \/ NpvLoop \/ NpvComplete

SpecNpv == InitNpv /\ [][NextNpv]_vars


\* ================================================================== claims

Done == stack = <<>>

\* The number of calls a stage launched for an item
RECURSIVE CountCalls(_, _, _)
CountCalls(log, stage, item) ==
    IF log = <<>> THEN 0
    ELSE (IF Head(log).stage = stage /\ Head(log).item = item THEN 1 ELSE 0)
         + CountCalls(Tail(log), stage, item)

CallsOf(stage) == { k \in 1..Len(calls) : calls[k].stage = stage }

ModelPaths == [k \in 1..Len(analysis_implementation_models) |->
                  analysis_implementation_models[k].path]

\* Control is before the start of a stage: in run(), at the entry of a stage
\* method, or in a stage that only waits to return what the next stage, which
\* it called itself, has returned.
BeforeStage ==
    \/ stack = <<>>
    \/ Top.fn = "run"
    \/ Top.fn \in StageFns /\ Top.pc \in {"enter", "return_none"}

\* C1: once the cancellation flag is set while control is before the start of
\* a stage, no step of the rest of the run launches a raster service call or
\* replaces a raster: control stays before the start of stages to the end.
C1_CancelledBeforeStage ==
    [][ (processing_cancelled /\ BeforeStage) =>
           /\ BeforeStage'
           /\ processing_cancelled'
           /\ calls' = calls
           /\ pathway_path' = pathway_path
           /\ carbon_paths' = carbon_paths
           /\ ModelPaths' = ModelPaths
           /\ output' = output ]_vars

\* A run that was cancelled after the cleaning stage had launched its last
\* call, and ended without entering the highest position analysis
C1_Witness ==
    /\ Done
    /\ processing_cancelled
    /\ calls /= <<>>
    /\ LastCall.stage = "run_models_cleaning"
    /\ ~LastCall.cancelled
    /\ ~scenario_result
    /\ \E k \in 1..Len(returns) :
          /\ returns[k].fn = "run_highest_position_analysis"
          /\ returns[k].val.kind = "None"

\* C2: once the cancellation flag is set, no raster service call is launched
C2_NoLaunchOnceCancelled ==
    [][ processing_cancelled => calls' = calls ]_vars

\* C3: once a stage has recorded the failure of a raster service call, no
\* raster service call is launched in the rest of the run
C3_NoStageAfterFailure ==
    [][ error.kind = "ServiceError" => calls' = calls ]_vars

\* C4: a run over activities that each have a path or pathways, in which a
\* raster service call failed (and no cancellation was requested), ends with
\* run() not returning True, with success false and with the error set
C4_FailureReported ==
    (/\ Done /\ failures > 0 /\ ~processing_cancelled
     /\ ~AnyHasNeither(settings_implementation_models)) =>
        (runResult /= "True" /\ ~success /\ error /= NoError)

\* C5: a run in which cancellation was requested and took effect (no final
\* raster was produced) does not end with run() reporting success
C5_CancelledNotSuccess ==
    (Done /\ processing_cancelled /\ ~output) => runResult /= "True"

\* The end-to-end run: A with two pathways without carbon layers, B with a
\* direct raster, both coefficients 0, no priority layer group
EndToEndRun ==
    /\ Len(settings_implementation_models) = 2
    /\ settings_implementation_models[1].pathways = << "p1", "p2" >>
    /\ settings_implementation_models[2].path = << "B" >>
    /\ \A p \in PathwayIds : carbon_paths[p] = <<>>
    /\ carbon_coefficient = 0 /\ suitability_index = 0
    /\ analysis_priority_layers_groups = <<>>
    /\ ~snapping_enabled
    /\ invalid_stats = {}

\* C6: the end-to-end run, neither cancelled nor hit by a service failure,
\* completes without error, launches no weighting call, and invokes the rank
\* statistics exactly once, over the cleaned rasters of A and B
C6_EndToEnd ==
    (EndToEndRun /\ Done /\ ~processing_cancelled /\ failures = 0) =>
        /\ runResult = "True"
        /\ error = NoError
        /\ CallsOf("run_models_weighting") = {}
        /\ Cardinality(CallsOf("run_highest_position_analysis")) = 1
        /\ \A k \in CallsOf("run_highest_position_analysis") :
              /\ Len(calls[k].inputs) = 2
              /\ \A r \in 1..2 : calls[k].inputs[r][Len(calls[k].inputs[r])] = "cleaned"

\* C7: with no priority layer group configured, a run that was neither
\* cancelled nor hit by a failure of a service ends with exactly one cleaning
\* call for each activity, on the activity's normalized raster
C7_CleaningWithoutWeighting ==
    (/\ Done /\ ~processing_cancelled /\ failures = 0
     /\ analysis_priority_layers_groups = <<>>
     /\ invalid_stats = {}
     /\ ~AnyHasNeither(settings_implementation_models)
     /\ UniquePathways(settings_implementation_models) /= <<>>) =>
        \A k \in 1..Len(analysis_implementation_models) :
           LET model == analysis_implementation_models[k] IN
           /\ CountCalls(calls, "run_models_cleaning", model.name) = 1
           /\ \A c \in CallsOf("run_models_cleaning") :
                 calls[c].item = model.name => calls[c].inputs = << model.path >>

\* C8: run() never ends with an exception that no stage caught
C8_NoUncaughtException == runResult /= "raised"

\* C9: in a run that completed without cancellation and without any error,
\* each unique pathway has exactly one pathway normalization call and each
\* activity exactly one model normalization call
C9_NormalizedOnce ==
    (Done /\ runResult = "True" /\ error = NoError /\ ~processing_cancelled) =>
        /\ \A p \in PathwayIds :
              (\E k \in 1..Len(analysis_implementation_models) :
                  \E r \in 1..Len(analysis_implementation_models[k].pathways) :
                      analysis_implementation_models[k].pathways[r] = p)
              => CountCalls(calls, "run_pathways_normalization", p) = 1
        /\ \A k \in 1..Len(analysis_implementation_models) :
              CountCalls(calls, "run_models_normalization",
                         analysis_implementation_models[k].name) = 1

\* C10: neither normalization round launches a raster calculator call for an
\* item whose band statistics have max < min (stated of the runs in which
\* nothing else has failed and no cancellation was requested)
C10_InvalidStatisticsRejected ==
    (error = NoError /\ failures = 0 /\ ~processing_cancelled) =>
    \A k \in 1..Len(calls) :
        calls[k].stage \in {"run_pathways_normalization", "run_models_normalization"}
            => calls[k].item \notin invalid_stats

\* The calls that raised
FailedCalls ==
    { raised[r].call : r \in { q \in 1..Len(raised) : raised[q].kind = "ServiceError" } }

\* C11: a raster operation that failed for an item in a stage is never issued
\* again for that item and stage in the same run
C11_NoRetry ==
    \A k \in FailedCalls : \A l \in (k + 1)..Len(calls) :
        ~(calls[l].stage = calls[k].stage /\ calls[l].item = calls[k].item
          /\ calls[l].alg = calls[k].alg)

\* The activities that have neither a direct path nor a pathway
NeitherNames ==
    { settings_implementation_models[k].name :
        k \in { q \in 1..Len(settings_implementation_models) :
                  HasNeither(settings_implementation_models[q]) } }

\* The stages that follow the pathway combination, which is the first to
\* look for such an activity when snapping is off
StagesAfterCombination ==
    StageFns \ { "snap_analysis_data", "run_pathways_analysis" }

\* C12: when some activity has neither a direct path nor a pathway, the
\* aggregate statistics are never called for it, no stage after the pathway
\* combination launches a raster call, and the run ends with an error
C12_NeitherAborts ==
    NeitherNames /= {} =>
        /\ \A k \in 1..Len(calls) :
              /\ ~(calls[k].stage = "run_models_analysis"
                    /\ calls[k].item \in NeitherNames)
              /\ calls[k].stage \notin StagesAfterCombination
        /\ Done => error /= NoError

\* C13: when the alignment of a layer yields no output path, no error is
\* recorded, no cancellation is triggered, and snap_analysis_data goes on
\* (it is still executing after the step)
C13_SnappingBestEffort ==
    [][ (At("snap_layer", "align") /\ failures' = failures + 1) =>
           /\ error' = error
           /\ isCanceled' = isCanceled
           /\ \E k \in 1..Len(stack') : stack'[k].fn = "snap_analysis_data" ]_vars

\* The activities whose priority_layers is None or an empty list
WithoutPriorityLayers ==
    { analysis_implementation_models[k].name :
        k \in { q \in 1..Len(analysis_implementation_models) :
                  \/ analysis_implementation_models[q].priority_layers_none
                  \/ analysis_implementation_models[q].priority_layers = <<>> } }

\* C14: an activity whose priority_layers is absent or empty receives no
\* weighting call and is not in the weighted set (stated of the runs in
\* which nothing has failed and no cancellation was requested)
C14_SkippedWithoutPriorityLayers ==
    (error = NoError /\ failures = 0 /\ ~processing_cancelled) =>
    /\ \A k \in CallsOf("run_models_weighting") :
          calls[k].item \notin WithoutPriorityLayers
    /\ \A k \in 1..Len(analysis_weighted_ims.list) :
          analysis_weighted_ims.list[k].name \notin WithoutPriorityLayers

\* C15: whenever carbon_coefficient > 0 and more than one carbon layer is
\* summed, the carbon term of a combination call divides the sum by the
\* number of the layers summed
C15_CarbonAverage ==
    \A k \in CallsOf("run_pathways_analysis") :
        \A t \in 1..Len(calls[k].expression) :
            Len(calls[k].expression[t].layers) > 1 =>
                calls[k].expression[t].divisor = Len(calls[k].expression[t].layers)

\* C16: no step of the weighting and cleaning stages changes the path of an
\* activity of analysis_implementation_models
C16_OriginalsKeepPath ==
    [][ (stack /= <<>> /\ Top.fn \in {"run_models_weighting", "run_models_cleaning"})
            => ModelPaths' = ModelPaths ]_vars

\* A run has ended in which the weighted and cleaned raster of an activity
\* is the path of its clone while the activity itself still has the
\* normalized raster
C16_Witness ==
    /\ Done
    /\ \E k \in 1..Len(analysis_weighted_ims.list) :
          LET clone == analysis_weighted_ims.list[k] IN
          /\ clone.path /= None
          /\ clone.path[Len(clone.path)] = "cleaned"
          /\ \E q \in 1..Len(analysis_implementation_models) :
                LET model == analysis_implementation_models[q] IN
                /\ model.name = clone.name
                /\ model.path /= None
                /\ model.path[Len(model.path)] = "normalized"

\* C17: the k-th raster of the stack passed to the rank statistics is the
\* raster of the weighted activity whose style_pixel_value is k
C17_StackInRankOrder ==
    \A c \in CallsOf("run_highest_position_analysis") :
        /\ Len(calls[c].inputs) = Len(analysis_weighted_ims.list)
        /\ \A k \in 1..Len(calls[c].inputs) :
              \E q \in 1..Len(analysis_weighted_ims.list) :
                 /\ analysis_weighted_ims.list[q].style_pixel_value = k
                 /\ analysis_weighted_ims.list[q].path = calls[c].inputs[k]

\* The rank statistics were called on two rasters, the first of which is
\* the raster of the second activity of the weighted list
C17_Witness ==
    \E c \in CallsOf("run_highest_position_analysis") :
        /\ Len(calls[c].inputs) = 2
        /\ Len(analysis_weighted_ims.list) = 2
        /\ calls[c].inputs[1] = analysis_weighted_ims.list[2].path
        /\ calls[c].inputs[1] /= analysis_weighted_ims.list[1].path

\* The style_pixel_value values of the activities of a list
Ranks(list) == { list[k].style_pixel_value : k \in 1..Len(list) }

\* C18: the step of the highest position stage that ranks the n weighted
\* activities leaves them with the values 1..n, each used once, in ascending
\* order of their previous values, ties in the order of the list
C18_RanksArePositions ==
    [][ (/\ At("run_highest_position_analysis", "enter")
         /\ ~processing_cancelled
         /\ ~analysis_weighted_ims.none) =>
           LET old == analysis_weighted_ims.list
               new == analysis_weighted_ims'.list
               n == Len(old)
           IN  /\ Len(new) = n
               /\ Ranks(new) = 1..n
               /\ \A a, b \in 1..n :
                     (\/ old[a].style_pixel_value < old[b].style_pixel_value
                      \/ (old[a].style_pixel_value = old[b].style_pixel_value /\ a < b))
                        => new[a].style_pixel_value < new[b].style_pixel_value ]_vars

\* Two weighted activities that had the same style_pixel_value have been
\* ranked and the rank statistics launched
C18_Witness ==
    /\ CallsOf("run_highest_position_analysis") /= {}
    /\ Len(analysis_weighted_ims.list) = 2
    /\ settings_implementation_models[1].style_pixel_value =
          settings_implementation_models[2].style_pixel_value
    /\ analysis_weighted_ims.list[1].style_pixel_value = 1
    /\ analysis_weighted_ims.list[2].style_pixel_value = 2

\* The alignment has been done and run() is past it
Aligned == stack /= <<>> /\ Top.fn = "run" /\ Top.pc = "snap"

\* C19: for positive pixel sizes the aligned extent covers the target extent
\* and each of its bounds is a whole number of pixels away from the bound of
\* the reference raster it is measured from
C19_AlignedExtentCoversOnGrid ==
    (/\ Aligned
     /\ raster_layer.rasterUnitsPerPixelX > 0
     /\ raster_layer.rasterUnitsPerPixelY > 0) =>
        LET e == raster_layer.extent
            x_res == raster_layer.rasterUnitsPerPixelX
            y_res == raster_layer.rasterUnitsPerPixelY
        IN  /\ snapped_extent.xMinimum <= processing_extent.xMinimum
            /\ snapped_extent.xMaximum >= processing_extent.xMaximum
            /\ snapped_extent.yMinimum <= processing_extent.yMinimum
            /\ snapped_extent.yMaximum >= processing_extent.yMaximum
            /\ (snapped_extent.xMinimum - e.xMinimum) % x_res = 0
            /\ (snapped_extent.xMaximum - e.xMinimum) % x_res = 0
            /\ (snapped_extent.yMinimum - e.yMinimum) % y_res = 0
            /\ (e.yMaximum - snapped_extent.yMaximum) % y_res = 0

\* An extent off the pixel grid has been aligned: every bound has moved
C19_Witness ==
    /\ Aligned
    /\ raster_layer.rasterUnitsPerPixelX > 1
    /\ raster_layer.rasterUnitsPerPixelY > 1
    /\ snapped_extent.xMinimum < processing_extent.xMinimum
    /\ snapped_extent.xMaximum > processing_extent.xMaximum
    /\ snapped_extent.yMinimum < processing_extent.yMinimum
    /\ snapped_extent.yMaximum > processing_extent.yMaximum

\* C20: align_extent does not raise and records no error; with a pixel size
\* of 0 it returns the target extent unchanged
C20_AlignExtentFallsBack ==
    /\ runResult /= "raised"
    /\ error = NoError
    /\ raised = <<>>
    /\ (Aligned /\ DivisionFails(raster_layer)) => snapped_extent = processing_extent

\* The alignment over a raster of pixel size 0 has returned the target extent
C20_Witness ==
    /\ Aligned
    /\ raster_layer.rasterUnitsPerPixelX = 0
    /\ snapped_extent = processing_extent
    /\ runResult = "none"

\* C21: for statistics with min < max and a pixel value between them, the
\* normalization expression gives a value between 0 and 1 when
\* normalization_index is not positive, and between 0 and normalization_index
\* when it is positive.
C21_NormalizedRange ==
    LET k == carbon_coefficient + suitability_index
        n == pixel.normalized
    IN  (/\ pixel.evaluated
         /\ pixel.min_value < pixel.max_value
         /\ pixel.min_value <= pixel.value
         /\ pixel.value <= pixel.max_value)
        => /\ n.den > 0
           /\ 0 <= n.num
           /\ n.num <= (IF k > 0 THEN k ELSE 1) * n.den

C21_Witness ==
    /\ pixel.evaluated
    /\ carbon_coefficient + suitability_index = 3
    /\ pixel.min_value = 1 /\ pixel.max_value = 3 /\ pixel.value = 3
    /\ pixel.normalized = [num |-> 6, den |-> 2]

\* The position of the stage a call belongs to in the order of run(): snapping
\* (with its no-data replacement), combination, normalization of pathways,
\* aggregation, normalization of activities, weighting, cleaning, highest
\* position
StageOrder(stage) ==
    CASE stage \in {"snap_layer", "replace_nodata"} -> 1
      [] stage = "run_pathways_analysis" -> 2
      [] stage = "run_pathways_normalization" -> 3
      [] stage = "run_models_analysis" -> 4
      [] stage = "run_models_normalization" -> 5
      [] stage = "run_models_weighting" -> 6
      [] stage = "run_models_cleaning" -> 7
      [] stage = "run_highest_position_analysis" -> 8

\* C22: over the raster service calls of a run, in the order they are
\* launched, no call of an earlier stage follows a call of a later stage:
\* the stage position never decreases from one call to the next.
C22_CallsInStageOrder ==
    \A a \in 1..(Len(calls) - 1) :
        StageOrder(calls[a].stage) <= StageOrder(calls[a + 1].stage)

C22_Witness ==
    /\ Done
    /\ { StageOrder(calls[k].stage) : k \in 1..Len(calls) } = 1..8

\* C23: every raster service call that is passed a feedback handle is passed
\* one created by the stage that launches it, never one created by an
\* earlier stage (align_rasters takes no feedback handle).
C23_FeedbackOfOwnStage ==
    \A k \in 1..Len(calls) :
        calls[k].alg /= "align_rasters" => calls[k].feedback = calls[k].stage

\* The method is being executed: one of the frames of the stack is its own
Executing(fn) == \E k \in 1..Len(stack) : stack[k].fn = fn

\* C24: when carbon_coefficient and suitability_index are both not positive,
\* no step taken while the combination stage executes changes the path of a
\* pathway, and no combination call is ever launched.
C24_NoCombinationWithoutCoefficients ==
    [][ (carbon_coefficient <= 0 /\ suitability_index <= 0) =>
          /\ Executing("run_pathways_analysis") => pathway_path' = pathway_path
          /\ CallsOf("run_pathways_analysis")' = {} ]_vars

\* The priority layer cannot be resolved: the settings store has no record
\* of it, the record has no path, or the file of the path does not exist
Unresolved(uuid) ==
    LET settings_layer == PriorityLayerSettings(uuid) IN
    ~settings_layer.present \/ ~settings_layer.has_path \/ ~settings_layer.exists

\* The uuids of the priority layers of the activity, as the settings store
\* lists them
LayerIds(model) ==
    { SettingsModel(model).priority_layers[k].uuid :
        k \in 1..Len(SettingsModel(model).priority_layers) }

\* The paths the layer is known by: in the settings store and in the activity
PathsOf(uuid) == { PriorityLayerSettings(uuid).path, << uuid >>, None }

\* The rasters the terms of an expression refer to
TermLayers(expression) ==
    { expression[t].layers[1] : t \in 1..Len(expression) }

ElementsOf(list) == { list[k] : k \in 1..Len(list) }

\* C25: in an iteration of the weighting loop over an activity with priority
\* layers some of which cannot be resolved, no error is recorded, a weighting
\* call is launched for the activity in which no unresolved layer is an
\* input or a term while every resolved layer with a positive coefficient
\* is both, and when the call returns the activity joins the weighted set.
C25_UnresolvedLayersSkipped ==
    [][ \A q \in 1..Len(analysis_implementation_models) :
          LET model == analysis_implementation_models[q] IN
          (/\ stack /= <<>>
           /\ Top.fn = "run_models_weighting"
           /\ Top.i = q
           /\ model.path /= None
           /\ ~model.priority_layers_none
           /\ analysis_priority_layers_groups /= <<>>
           /\ ~processing_cancelled
           /\ \E uuid \in LayerIds(model) : Unresolved(uuid))
          => /\ Top.pc = "loop" =>
                  /\ error' = error
                  /\ Len(calls') = Len(calls) + 1
                  /\ LET call == calls'[Len(calls')] IN
                     /\ call.stage = "run_models_weighting"
                     /\ call.item = model.name
                     /\ \A uuid \in LayerIds(model) :
                          IF Unresolved(uuid)
                          THEN /\ PathsOf(uuid) \cap ElementsOf(call.inputs) = {}
                               /\ PathsOf(uuid) \cap TermLayers(call.expression) = {}
                          ELSE (\E g \in ElementsOf(PriorityLayerSettings(uuid).groups) :
                                    g.value > 0)
                               => /\ PriorityLayerSettings(uuid).path
                                        \in ElementsOf(call.inputs)
                                  /\ PriorityLayerSettings(uuid).path
                                        \in TermLayers(call.expression)
             /\ (Top.pc = "inflight" /\ stack' /= stack /\ failures' = failures) =>
                  /\ error' = error
                  /\ stack' /= <<>>
                  /\ LET acc == stack'[Len(stack')].acc IN
                     /\ Len(acc) = Len(Top.acc) + 1
                     /\ acc[Len(acc)].name = model.name
                     /\ acc[Len(acc)].path = Append(model.path, "weighted") ]_vars

\* The weighting returned a weighted set holding activity B, whose layers w2
\* and w4 cannot be resolved; its call had the rasters of B and of w1 as
\* inputs, and no error is recorded.
C25_Witness ==
    /\ At("run", "unpack")
    /\ error = NoError
    /\ lastRet.kind = "Tuple"
    /\ \E k \in 1..Len(lastRet.models) :
          /\ lastRet.models[k].name = "B"
          /\ { uuid \in LayerIds(lastRet.models[k]) : Unresolved(uuid) }
                = {"w2", "w4"}
    /\ \E k \in CallsOf("run_models_weighting") :
          /\ calls[k].item = "B"
          /\ Len(calls[k].inputs) = 2
          /\ calls[k].inputs[2] = << "w1" >>

\* C26: no step of a run, cancelled and failed runs included, removes a file
\* from the rasters the run has written: the set only grows.
C26_RastersOnlyGrow == [][ rasters \subseteq rasters' ]_vars

\* A cancelled run has ended; the combined raster of p1 is still on disk
\* although the path of p1 names the normalized raster computed from it.
C26_Witness ==
    /\ Done
    /\ processing_cancelled
    /\ pathway_path["p1"] = << "p1", "combined", "normalized" >>
    /\ << "p1", "combined" >> \in rasters
    /\ pathway_path["p1"] \in rasters

\* C27: for each activity of the weighted set the cleaning stage launches one
\* call of the cell statistics over that activity's raster alone, with the
\* sum as statistic and 0 as the no-data value of the output, and when the
\* call returns the path of the activity is the cleaned raster it wrote.
C27_CleaningCall ==
    [][ (stack /= <<>> /\ Top.fn = "run_models_cleaning" /\ Top.arg = "list"
         /\ ~analysis_weighted_ims.none
         /\ Top.i <= Len(analysis_weighted_ims.list))
        => LET model == analysis_weighted_ims.list[Top.i] IN
           /\ (Top.pc = "loop" /\ model.path /= None /\ ~processing_cancelled) =>
                /\ Len(calls') = Len(calls) + 1
                /\ LET call == calls'[Len(calls')] IN
                   /\ call.alg = "native:cellstatistics"
                   /\ call.item = model.name
                   /\ call.inputs = << model.path >>
                   /\ Len(call.expression) = 1
                   /\ call.expression[1].STATISTIC = 0
                   /\ call.expression[1].OUTPUT_NODATA_VALUE = 0
           /\ (Top.pc = "inflight" /\ stack' /= stack /\ failures' = failures) =>
                LET cleaned == analysis_weighted_ims'.list[Top.i].path IN
                /\ cleaned = Append(LastCall.inputs[1], "cleaned")
                /\ cleaned \in rasters'
                /\ cleaned \notin rasters ]_vars

\* The cleaning stage returned True after cleaning the weighted raster of
\* every activity of the weighted set.
C27_Witness ==
    /\ At("run", "highest_position")
    /\ lastRet = RetVal("True")
    /\ Len(analysis_weighted_ims.list) = 2
    /\ \A k \in 1..2 :
          LET path == analysis_weighted_ims.list[k].path IN
          /\ Len(path) > 2
          /\ path[Len(path)] = "cleaned"
          /\ path[Len(path) - 1] = "weighted"
    /\ Cardinality(CallsOf("run_models_cleaning")) = 2

\* The (layer, group) pairs of an activity that give a term: the position of
\* a resolved layer in the list of the settings store, and the position of a
\* group of that layer whose coefficient is positive
WeightedPairs(model) ==
    LET layers == SettingsModel(model).priority_layers IN
    { pair \in (1..Len(layers)) \X (1..3) :
        LET settings_layer == PriorityLayerSettings(layers[pair[1]].uuid) IN
        /\ ~Unresolved(layers[pair[1]].uuid)
        /\ pair[2] <= Len(settings_layer.groups)
        /\ settings_layer.groups[pair[2]].value > 0 }

\* C28: the expression of a weighting call is the term of the activity's
\* raster followed by exactly one term coefficient * layer for each pair of
\* a resolved layer and a group of it with a positive coefficient; a resolved
\* layer without a positive coefficient is neither a term nor an input, and
\* no raster is twice among the inputs.
C28_WeightingExpression ==
    \A k \in CallsOf("run_models_weighting") :
        LET call == calls[k]
            q == CHOOSE q \in 1..Len(settings_implementation_models) :
                     settings_implementation_models[q].name = call.item
            model == settings_implementation_models[q]
            layers == model.priority_layers
            pairs == WeightedPairs(model)
        IN  /\ call.expression[1] = Term(1, << call.inputs[1] >>, 1)
            /\ Len(call.expression) = 1 + Cardinality(pairs)
            /\ \A pair \in pairs :
                  LET settings_layer == PriorityLayerSettings(layers[pair[1]].uuid)
                      term == Term(settings_layer.groups[pair[2]].value,
                                   << settings_layer.path >>, 1)
                  IN  /\ \E t \in 2..Len(call.expression) : call.expression[t] = term
                      /\ settings_layer.path \in ElementsOf(call.inputs)
            /\ \A t \in 2..Len(call.expression) :
                  \E pair \in pairs :
                      LET settings_layer == PriorityLayerSettings(layers[pair[1]].uuid)
                      IN  call.expression[t] =
                              Term(settings_layer.groups[pair[2]].value,
                                   << settings_layer.path >>, 1)
            /\ \A j \in 1..Len(layers) :
                  (\A pair \in pairs : pair[1] /= j) =>
                      /\ PathsOf(layers[j].uuid) \cap ElementsOf(call.inputs) = {}
                      /\ PathsOf(layers[j].uuid) \cap TermLayers(call.expression) = {}
            /\ Cardinality(ElementsOf(call.inputs)) = Len(call.inputs)

\* The weighting call of activity A of the second list, whose layer w1 has
\* the coefficients 1, 0 and 2 and whose layer w5 has the coefficient 0: two
\* terms of w1 after the term of the raster of A, and w1 once among the inputs
C28_Witness ==
    \E k \in CallsOf("run_models_weighting") :
        /\ calls[k].item = "A"
        /\ { layer.uuid : layer \in ElementsOf(settings_implementation_models[1].priority_layers) }
              = {"w1", "w3", "w5"}
        /\ Len(calls[k].expression) = 3
        /\ calls[k].expression[2] = Term(1, << << "w1" >> >>, 1)
        /\ calls[k].expression[3] = Term(2, << << "w1" >> >>, 1)
        /\ Len(calls[k].inputs) = 2
        /\ calls[k].inputs[2] = << "w1" >>

\* C29: when the snapping stage has replaced the path of a priority layer of
\* an activity by a snapped raster, a weighting call launched for the
\* activity (in a run with no error, failure or cancellation so far) has the
\* snapped raster, and not the path of the settings store,
\* among its inputs and in the terms of the layer.
C29_WeightingUsesSnappedLayer ==
    [][ \A q \in 1..Len(analysis_implementation_models) :
          LET model == analysis_implementation_models[q] IN
          (/\ At("run_models_weighting", "loop")
           /\ Top.i = q
           /\ error = NoError /\ failures = 0 /\ ~processing_cancelled
           /\ Len(calls') = Len(calls) + 1)
          => \A j \in 1..Len(model.priority_layers) :
                LET priority_layer == model.priority_layers[j]
                    settings_layer == PriorityLayerSettings(priority_layer.uuid)
                    call == calls'[Len(calls')]
                IN  (/\ priority_layer.path \in rasters
                     /\ \E g \in ElementsOf(settings_layer.groups) : g.value > 0)
                    => /\ priority_layer.path \in ElementsOf(call.inputs)
                       /\ priority_layer.path \in TermLayers(call.expression)
                       /\ settings_layer.path \notin ElementsOf(call.inputs) ]_vars

\* C30: while the combination stage executes, the path of a pathway without
\* carbon layers does not change and no combination call is launched for it;
\* and the iteration that skips such a pathway goes on with the next pathway
\* of the list.
C30_PathwayWithoutCarbonSkipped ==
    [][ \A p \in PathwayIds :
          carbon_paths[p] = <<>> =>
            /\ Executing("run_pathways_analysis") =>
                    pathway_path'[p] = pathway_path[p]
            /\ \A k \in CallsOf("run_pathways_analysis")' : calls'[k].item /= p
            /\ (/\ At("run_pathways_analysis", "loop")
                /\ Top.i <= Len(Top.items)
                /\ Top.items[Top.i] = p)
               => /\ stack' /= <<>>
                  /\ stack'[Len(stack')] = [Top EXCEPT !.i = Top.i + 1] ]_vars

\* The service calls launched since the invocation of the frame began that
\* process the pathway: its combination or normalization call, or the
\* alignment of its own raster by the snapping stage
PathwayCalls(frame, p) ==
    { k \in frame.first..Len(calls) :
        IF frame.fn = "snap_analysis_data"
        THEN calls[k].alg = "align_rasters" /\ calls[k].item = << p >>
        ELSE calls[k].stage = frame.fn /\ calls[k].item = p }

C32_FirstErrorKept ==
    [][ error /= NoError => error' = error ]_vars

\* C33: a stage method that returns because it found the run cancelled at
\* its entry, or because its except block caught an exception, does not
\* return True.
C33_FailureValueReturned ==
    [][ (/\ Len(returns') = Len(returns) + 1
         /\ returns'[Len(returns')].fn \in StageFns
         /\ \/ Len(raised') = Len(raised) + 1
            \/ Top.fn \in StageFns /\ Top.pc = "enter" /\ processing_cancelled)
        => returns'[Len(returns')].val /= RetVal("True") ]_vars

\* The activities of the weighted set that have an entry in the layer map
WithLayer(models) == SelectSeq(models, HasLayer)

C35_ScenarioResultAssignedOnce ==
    [][ /\ scenario_result' /= scenario_result =>
              /\ At("run_highest_position_analysis", "enter")
              /\ ~processing_cancelled
              /\ scenario_result'
        /\ At("run_highest_position_analysis", "enter") => ~scenario_result
        /\ scenario_result => scenario_result' ]_vars

\* The stage assigned the result and the rank statistics returned.
C35_Witness ==
    /\ scenario_result
    /\ output
    /\ stack = <<>>
    /\ \E k \in 1..Len(returns) :
          returns[k] = [fn |-> "run_highest_position_analysis", val |-> RetVal("True")]

\* C36: whenever the highest position stage invokes the rank statistics,
\* the stack of input rasters it passes is not empty. Stated for the runs in
\* which no exception was raised and the flag was not set, so that an empty
\* stack is not the consequence of an earlier failure.
C36_StackNotEmpty ==
    (raised = <<>> /\ ~processing_cancelled) =>
        \A k \in CallsOf("run_highest_position_analysis") :
            calls[k].inputs /= <<>>

\* C37: no progress notification is emitted while the cancellation flag is
\* set: a progress report that arrives after cancellation emits nothing and
\* changes nothing but the feedback handle.
C37_NoProgressAfterCancel ==
    [][ /\ custom_progress_changed' /= custom_progress_changed =>
              ~processing_cancelled /\ ~processing_cancelled'
        /\ (processing_cancelled /\ feedback' /= feedback /\ stack' = stack) =>
              /\ feedback' = "update_progress"
              /\ UNCHANGED << custom_progress_changed, calls, returns, error,
                              raised, isCanceled, status_message, info_message,
                              scenario_result, output, analysis_weighted_ims >> ]_vars

\* A notification was emitted before the flag was set, and the report that
\* arrived after it was set rebound the handle and emitted nothing.
C37_Witness ==
    /\ processing_cancelled
    /\ feedback = "update_progress"
    /\ custom_progress_changed = 1
    /\ InFlight

\* The mappings the loop has passed: all of them once the function ended
Passed ==
    CASE npv.pc = "loop" -> npv.current_step - 1
      [] npv.pc = "inflight" -> npv.current_step
      [] npv.pc = "returned" /\ base_dir -> Len(npv_collection.mappings)
      [] npv.pc = "raised" -> Len(npv_collection.mappings)
      [] OTHER -> 0

\* The indices up to n of the mappings that are enabled and have both an
\* activity and NPV params, in collection order
RECURSIVE Complete(_, _)
Complete(mappings, n) ==
    IF n = 0 THEN <<>>
    ELSE IF mappings[n].enabled /\ mappings[n].activity /\ mappings[n].params
         THEN Append(Complete(mappings, n - 1), n)
         ELSE Complete(mappings, n - 1)

\* C38: with a base directory configured, create_npv_pwls requests one
\* constant raster for each mapping that is enabled and has both an activity
\* and NPV params, in collection order, and none for the others; this holds
\* for all the mappings of the collection once the function has ended,
\* whatever deletions and creations failed on the way.
C38_OneCreationPerCompleteMapping ==
    npv.calls = Complete(npv_collection.mappings, Passed)

\* The function ended after a file of a disabled mapping could not be
\* deleted and the creation for a mapping failed, and a later mapping got
\* its raster
C38_Witness ==
    /\ npv.pc = "returned"
    /\ npv.undeleted /= {}
    /\ \E i \in npv.failed :
          /\ \E k \in 1..Len(npv.finished) : npv.finished[k] > i
          /\ \E u \in 1..(i - 1) :
                npv_collection.mappings[u].base_name \in npv.undeleted
====
